---- MODULE Spec2Model ----
(***************************************************************************)
(* Transfer-duty engine (duty.js) and purchasing-power solver              *)
(* (purchasingPower.js) of the Calculator repository.                      *)
(*                                                                         *)
(* Money is in whole dollars.  Ratios that the JavaScript holds as         *)
(* floating point numbers are held as exact scaled integers: a marginal    *)
(* rate r is the integer r * RateScale, a loan-to-value ratio l is the     *)
(* integer l * LvrScale.  Amounts the solver derives from a ratio          *)
(* (baseLoan, depositPortion, cashNeeded) are kept multiplied by LvrScale. *)
(* Math.round is round-half-up (RoundHalfUp), Math.floor is \div.          *)
(***************************************************************************)
EXTENDS Integers, Sequences, FiniteSets, TLC

\* A field that the JSON object / the caller does not give (undefined / null).
NULL == -1

RateScale == 10000

LvrScale == 100

\* Math.round(num / den) for den > 0: floor(num/den + 1/2).
RoundHalfUp(num, den) == (2 * num + den) \div (2 * den)

Max2(a, b) == IF a >= b THEN a ELSE b

Min2(a, b) == IF a <= b THEN a ELSE b

\* The outcome of a call that either returns a number or throws.
Ok(v) == [threw |-> FALSE, value |-> v, error |-> "none"]

Throw(e) == [threw |-> TRUE, value |-> 0, error |-> e]

(***************************************************************************)
(* Rule sets.  A rule set is the parsed JSON file of one jurisdiction:     *)
(*   status   : meta.status, "" when not declared                          *)
(*   modes    : mode name -> mode                                          *)
(*   formula  : modes.established.formula.type ("" when absent) and its    *)
(*              max_applicable                                             *)
(*   fhb      : the declarative concession block                           *)
(* A mode is [present, shape, rows, inherits]; shape tells where the rows  *)
(* sit in the JSON: "schedule" (mode.schedule is the array),               *)
(* "schedule_brackets" (mode.schedule.brackets), "brackets"                *)
(* (mode.brackets), "array" (the mode is the array), "none".               *)
(* A raw row is [hasWA, lower_inclusive, to, base, rate, applies_above],   *)
(* with NULL for a key the row does not carry; `to` is the first           *)
(* of to / up_to / max / upper_exclusive that is present.                  *)
(***************************************************************************)
ModeNames == {"established", "land", "ppr", "fhb_land", "fhb_home_metro", "fhb_home_nonmetro"}

NoMode == [present |-> FALSE, shape |-> "none", rows |-> <<>>, inherits |-> ""]

\* mode.schedule is truthy
HasSchedule(m) == m.present /\ m.shape \in {"schedule", "schedule_brackets"}

\* mode.brackets is truthy
HasBrackets(m) == m.present /\ m.shape = "brackets"

ModeOf(rules, name) == IF name \in DOMAIN rules.modes THEN rules.modes[name] ELSE NoMode

\* duty.js resolveModeSchedule: follow `inherits` once, then take the rows.
resolveModeSchedule(mode, rules) ==
    LET m == IF /\ mode.present
                /\ ~HasSchedule(mode) /\ ~HasBrackets(mode)
                /\ mode.inherits # ""
                /\ ModeOf(rules, mode.inherits).present
             THEN ModeOf(rules, mode.inherits)
             ELSE mode
    IN IF m.present /\ m.shape \in {"array", "schedule", "schedule_brackets", "brackets"}
       THEN m.rows
       ELSE <<>>

\* A faulty variant of normaliseRow: a legacy row always starts at 0.
normaliseRow_noCursor(r, idx, lower) ==
    [lower_inclusive |-> IF r.hasWA /\ r.lower_inclusive # NULL THEN r.lower_inclusive ELSE 0,
     upper_exclusive |-> r.to,
     base            |-> IF r.base # NULL THEN r.base ELSE 0,
     rate            |-> IF r.rate # NULL THEN r.rate ELSE 0,
     applies_above   |-> IF r.applies_above # NULL THEN r.applies_above
                         ELSE IF r.hasWA /\ r.lower_inclusive # NULL THEN r.lower_inclusive
                         ELSE 0]

\* duty.js normaliseRows, one row: `lower` is the running lower bound.
normaliseRow(r, idx, lower) ==
    LET li == IF r.hasWA
              THEN (IF r.lower_inclusive # NULL THEN r.lower_inclusive ELSE lower)
              ELSE (IF idx = 1 THEN 0 ELSE lower)
    IN [lower_inclusive |-> li,
        upper_exclusive |-> r.to,
        base            |-> IF r.base # NULL THEN r.base ELSE 0,
        rate            |-> IF r.rate # NULL THEN r.rate ELSE 0,
        applies_above   |-> IF r.applies_above # NULL THEN r.applies_above ELSE li]

RECURSIVE normaliseFrom(_, _, _)
normaliseFrom(rows, idx, lower) ==
    IF idx > Len(rows) THEN <<>>
    ELSE LET n == normaliseRow(rows[idx], idx, lower)
             nextLower == IF n.upper_exclusive # NULL THEN n.upper_exclusive ELSE lower
         IN <<n>> \o normaliseFrom(rows, idx + 1, nextLower)

normaliseRows(rows) == normaliseFrom(rows, 1, 0)

\* Array.findIndex of calcFromRows: first row that is open-topped or whose
\* upper bound exceeds the price; 0 when there is none.
RECURSIVE findRow(_, _, _)
findRow(nrows, price, i) ==
    IF i > Len(nrows) THEN 0
    ELSE IF nrows[i].upper_exclusive = NULL \/ price < nrows[i].upper_exclusive THEN i
    ELSE findRow(nrows, price, i + 1)

\* A faulty variant of rowDuty: the cents are cut off instead of rounded.
rowDuty_truncated(row, price) ==
    (row.base * RateScale + row.rate * (price - row.applies_above)) \div RateScale

\* duty.js calcFromRows
rowDuty(row, price) ==
    RoundHalfUp(row.base * RateScale + row.rate * (price - row.applies_above), RateScale)

calcFromNormalised(nrows, price, idx) ==
    IF Len(nrows) = 0 THEN Throw("ScheduleError")
    ELSE Ok(rowDuty(nrows[IF idx = 0 THEN Len(nrows) ELSE idx], price))

calcFromNrows(nrows, price) == calcFromNormalised(nrows, price, findRow(nrows, price, 1))

calcFromRows(rows, price) == calcFromNrows(normaliseRows(rows), price)

(***************************************************************************)
(* Strings.  toUpperCase / toLowerCase act on the few strings the model    *)
(* uses; any other string is left as it is.                                *)
(***************************************************************************)
UpperOf == [s \in {"nsw", "vic", "qld", "wa", "sa", "tas", "act", "nt"} |->
              CASE s = "nsw" -> "NSW" [] s = "vic" -> "VIC" [] s = "qld" -> "QLD"
                [] s = "wa" -> "WA" [] s = "sa" -> "SA" [] s = "tas" -> "TAS"
                [] s = "act" -> "ACT" [] s = "nt" -> "NT"]

toUpperCase(s) == IF s \in DOMAIN UpperOf THEN UpperOf[s] ELSE s

toLowerCase(s) ==
    IF \E l \in DOMAIN UpperOf : UpperOf[l] = s
    THEN CHOOSE l \in DOMAIN UpperOf : UpperOf[l] = s
    ELSE IF s = "Metro" \/ s = "METRO" THEN "metro" ELSE s

\* duty.js STATE_FILES: the jurisdictions that have a rule file.
STATE_FILES == DOMAIN UpperOf

(***************************************************************************)
(* NT closed form: Math.round(0.06571441 * V * V + 15 * V), V = price/1000,*)
(* that is round((6571441 * p^2 + 15 * 10^11 * p) / 10^14).  The products  *)
(* exceed 32 bits, so the sum is carried out on base-10^4 limbs.           *)
(***************************************************************************)
Limb == 10000

calcDutyNtPoly(price) ==
    LET p0 == price % Limb
        p1 == price \div Limb
        \* p^2 = s2 * Limb^2 + s1 * Limb + s0, normalised to limbs a0..a3
        s0 == p0 * p0
        s1 == 2 * p1 * p0 + (s0 \div Limb)
        s2 == p1 * p1 + (s1 \div Limb)
        a0 == s0 % Limb
        a1 == s1 % Limb
        a2 == s2 % Limb
        a3 == s2 \div Limb
        \* 6571441 = 657 * Limb + 1441
        c0 == 1441
        c1 == 657
        \* 15 * 10^11 * p = (15000 * p) * Limb^2
        m0 == c0 * a0
        m1 == c0 * a1 + c1 * a0 + (m0 \div Limb)
        m2 == c0 * a2 + c1 * a1 + 15000 * p0 + (m1 \div Limb)
        \* rounding: + 10^14 / 2 = 50 * Limb^3
        m3 == c0 * a3 + c1 * a2 + 15000 * p1 + 50 + (m2 \div Limb)
        m4 == c1 * a3 + (m3 \div Limb)
    IN (m4 * Limb + (m3 % Limb)) \div 100

(***************************************************************************)
(* Mode selection                                                          *)
(***************************************************************************)
\* A faulty variant of pickSchedule: the WA first-home cap is 700,000 in
\* every region.
pickSchedule_oneCap(rules, state, price, isLand, isPpr, isFhb, region) ==
    IF isLand
    THEN IF isFhb /\ toUpperCase(state) = "WA" /\ price <= 450000
              /\ HasSchedule(ModeOf(rules, "fhb_land"))
         THEN ModeOf(rules, "fhb_land")
         ELSE IF HasSchedule(ModeOf(rules, "land")) THEN ModeOf(rules, "land")
         ELSE ModeOf(rules, "established")
    ELSE IF isPpr /\ toUpperCase(state) = "VIC" /\ price <= 550000 /\ ModeOf(rules, "ppr").present
         THEN ModeOf(rules, "ppr")
    ELSE IF isPpr /\ toUpperCase(state) \in {"QLD", "ACT"} /\ ModeOf(rules, "ppr").present
         THEN ModeOf(rules, "ppr")
    ELSE IF isFhb /\ toUpperCase(state) = "WA" /\ price <= 700000
              /\ HasSchedule(ModeOf(rules, IF toLowerCase(region) = "metro"
                                            THEN "fhb_home_metro" ELSE "fhb_home_nonmetro"))
         THEN ModeOf(rules, IF toLowerCase(region) = "metro"
                            THEN "fhb_home_metro" ELSE "fhb_home_nonmetro")
    ELSE ModeOf(rules, "established")

\* A faulty variant of pickSchedule: the owner-occupier mode is capped at
\* 550,000 in every jurisdiction that has one.
pickSchedule_cappedEverywhere(rules, state, price, isLand, isPpr, isFhb, region) ==
    IF isLand
    THEN IF isFhb /\ toUpperCase(state) = "WA" /\ price <= 450000
              /\ HasSchedule(ModeOf(rules, "fhb_land"))
         THEN ModeOf(rules, "fhb_land")
         ELSE IF HasSchedule(ModeOf(rules, "land")) THEN ModeOf(rules, "land")
         ELSE ModeOf(rules, "established")
    ELSE IF isPpr /\ toUpperCase(state) \in {"VIC", "QLD", "ACT"} /\ price <= 550000
              /\ ModeOf(rules, "ppr").present
         THEN ModeOf(rules, "ppr")
    ELSE ModeOf(rules, "established")

\* A faulty variant of pickSchedule: the first-home land mode is used at
\* every price, and the VIC owner-occupier mode at every price.
pickSchedule_noCap(rules, state, price, isLand, isPpr, isFhb, region) ==
    IF isLand
    THEN IF isFhb /\ toUpperCase(state) = "WA" /\ HasSchedule(ModeOf(rules, "fhb_land"))
         THEN ModeOf(rules, "fhb_land")
         ELSE IF HasSchedule(ModeOf(rules, "land")) THEN ModeOf(rules, "land")
         ELSE ModeOf(rules, "established")
    ELSE IF isPpr /\ toUpperCase(state) \in {"VIC", "QLD", "ACT"} /\ ModeOf(rules, "ppr").present
         THEN ModeOf(rules, "ppr")
    ELSE ModeOf(rules, "established")

\* duty.js pickSchedule
pickSchedule(rules, state, price, isLand, isPpr, isFhb, region) ==
    LET st       == toUpperCase(state)
        landCap  == 450000
        land     == ModeOf(rules, "land")
        isMetro  == toLowerCase(IF region = "" THEN "metro" ELSE region) = "metro"
        cap      == IF isMetro THEN 700000 ELSE 750000
        fhbMode  == IF isMetro THEN ModeOf(rules, "fhb_home_metro")
                    ELSE ModeOf(rules, "fhb_home_nonmetro")
    IN IF isLand
       THEN IF isFhb /\ st = "WA" /\ price <= landCap /\ HasSchedule(ModeOf(rules, "fhb_land"))
            THEN ModeOf(rules, "fhb_land")
            ELSE IF HasSchedule(land) THEN land
            ELSE IF land.present /\ land.inherits # "" /\ ModeOf(rules, land.inherits).present
                 THEN ModeOf(rules, land.inherits)
            ELSE ModeOf(rules, "established")
       ELSE IF isPpr /\ st = "VIC" /\ price <= 550000 /\ ModeOf(rules, "ppr").present
            THEN ModeOf(rules, "ppr")
       ELSE IF isPpr /\ st = "QLD" /\ ModeOf(rules, "ppr").present
            THEN ModeOf(rules, "ppr")
       ELSE IF isPpr /\ st = "ACT" /\ ModeOf(rules, "ppr").present
            THEN ModeOf(rules, "ppr")
       ELSE IF isFhb /\ st = "WA" /\ price <= cap /\ HasSchedule(fhbMode)
            THEN fhbMode
       ELSE ModeOf(rules, "established")

(***************************************************************************)
(* Concessions                                                             *)
(***************************************************************************)
\* Math.round(a * b / c) for a, b >= 0 and 0 < c: the product is formed on
\* base-10^4 limbs and divided by long division, so that dollar amounts
\* times dollar amounts do not leave 32 bits.
RoundMulDiv(a, b, c) ==
    LET a0 == a % Limb
        a1 == a \div Limb
        b0 == b % Limb
        b1 == b \div Limb
        s0 == a0 * b0
        s1 == a1 * b0 + a0 * b1 + (s0 \div Limb)
        s2 == a1 * b1 + (s1 \div Limb)
        n0 == s0 % Limb
        n1 == s1 % Limb
        n2 == s2 % Limb
        n3 == s2 \div Limb
        q3 == n3 \div c
        t2 == (n3 % c) * Limb + n2
        q2 == t2 \div c
        t1 == (t2 % c) * Limb + n1
        q1 == t1 \div c
        t0 == (t1 % c) * Limb + n0
        q0 == t0 \div c
        r  == t0 % c
        q  == ((q3 * Limb + q2) * Limb + q1) * Limb + q0
    IN IF 2 * r >= c THEN q + 1 ELSE q

\* duty.js applyFhbConcessions, the rule loop from rule i on.  A rule is
\* [property_type, isPpr, from, to, type, basis, cap_price, cap_mode] with
\* "" / NULL for an absent key and isPpr in {"absent", "true", "false"}.
RECURSIVE fhbRuleLoop(_, _, _, _, _, _, _, _)
fhbRuleLoop(rules, i, price, isPpr, isLand, baseDuty, mode, rows) ==
    IF i > Len(rules.fhb.concessions) THEN Ok(baseDuty)
    ELSE
      LET c        == rules.fhb.concessions[i]
          propType == IF isLand THEN "land" ELSE "established"
          propOk   == (IF c.property_type = "" THEN "established" ELSE c.property_type) = propType
          pprOk    == IF c.isPpr = "absent" THEN TRUE ELSE (isPpr = (c.isPpr = "true"))
          next     == fhbRuleLoop(rules, i + 1, price, isPpr, isLand, baseDuty, mode, rows)
          basisRows == IF c.basis = "ppr" THEN resolveModeSchedule(ModeOf(rules, "ppr"), rules)
                       ELSE IF c.basis = "general"
                            THEN resolveModeSchedule(ModeOf(rules, "established"), rules)
                       ELSE rows
          capRows  == IF c.cap_mode = "ppr" THEN resolveModeSchedule(ModeOf(rules, "ppr"), rules)
                      ELSE rows
          target   == IF c.type = "linear_to_full" THEN calcFromRows(basisRows, price)
                      ELSE calcFromRows(capRows, c.cap_price)
      IN IF ~propOk \/ ~pprOk THEN next
         ELSE IF ~(c.from >= 0 /\ c.to > c.from) THEN next
         ELSE IF price <= c.from THEN Ok(0)
         ELSE IF price >= c.to THEN next
         ELSE IF c.type = "linear_to_full" \/ (c.type = "linear_to_cap" /\ c.cap_price > 0)
              THEN IF target.threw THEN target
                   ELSE Ok(RoundMulDiv(target.value, price - c.from, c.to - c.from))
         ELSE next

\* duty.js applyFhbConcessions
applyFhbConcessions(rules, price, isPpr, isLand, isFhb, baseDuty, mode, rows) ==
    IF ~isFhb THEN Ok(baseDuty)
    ELSE IF ~rules.fhb.enabled THEN Ok(baseDuty)
    ELSE fhbRuleLoop(rules, 1, price, isPpr, isLand, baseDuty, mode, rows)

(***************************************************************************)
(* The duty engine                                                         *)
(***************************************************************************)
\* A faulty variant of hardCodedFhb: the NSW taper is measured from 700,000
\* instead of from the waiver cap.
hardCodedFhb_earlyStart(rules, st, price, isFhb, isPpr, baseDuty, rows) ==
    IF isFhb /\ st = "NSW" /\ price <= 800000 THEN Ok(0)
    ELSE IF isFhb /\ st = "NSW" /\ price < 1000000
         THEN Ok(RoundMulDiv(baseDuty, price - 700000, 1000000 - 800000))
    ELSE IF isFhb /\ isPpr /\ st = "VIC" /\ price <= 600000 THEN Ok(0)
    ELSE IF isFhb /\ isPpr /\ st = "QLD" /\ price <= 700000 THEN Ok(0)
    ELSE Ok(baseDuty)

\* duty.js calcDuty: the hard-coded first-home rules of NSW, VIC and QLD,
\* reached when the declarative path left the base duty unchanged.
hardCodedFhb(rules, st, price, isFhb, isPpr, baseDuty, rows) ==
    IF isFhb /\ st = "NSW" /\ price <= 800000 THEN Ok(0)
    ELSE IF isFhb /\ st = "NSW" /\ price < 1000000
         THEN Ok(RoundMulDiv(baseDuty, price - 800000, 1000000 - 800000))
    ELSE IF isFhb /\ isPpr /\ st = "VIC" /\ price <= 600000 THEN Ok(0)
    ELSE IF isFhb /\ isPpr /\ st = "VIC" /\ price < 750000
         THEN LET generalDuty ==
                    calcFromRows(resolveModeSchedule(ModeOf(rules, "established"), rules), price)
              IN IF generalDuty.threw THEN generalDuty
                 ELSE Ok(RoundMulDiv(generalDuty.value, price - 600000, 750000 - 600000))
    ELSE IF isFhb /\ isPpr /\ st = "QLD" /\ price <= 700000 THEN Ok(0)
    ELSE IF isFhb /\ isPpr /\ st = "QLD" /\ price >= 800000 THEN Ok(baseDuty)
    ELSE IF isFhb /\ isPpr /\ st = "QLD"
         THEN LET capDuty == calcFromRows(rows, 800000)
              IN IF capDuty.threw THEN capDuty
                 ELSE Ok(RoundMulDiv(capDuty.value, price - 700000, 800000 - 700000))
    ELSE Ok(baseDuty)

\* duty.js calcDuty.  `a` is the argument object
\* [state, price, priceIsNumber, isLand, isFhb, isPpr, region]; `rules` is
\* the content of the rule file of a.state (what loadRules returns).
\* The steps after the guards are chained operators, one per statement:
\* lines 216-218 (mode, rows, baseDuty), 221-222 (declarative concessions),
\* 224-261 (hard-coded rules).
calcDutyConcessions(a, rules, rows, baseDuty, viaJson) ==
    IF viaJson.threw THEN viaJson
    ELSE IF viaJson.value # baseDuty THEN viaJson
    ELSE hardCodedFhb(rules, toUpperCase(a.state), a.price, a.isFhb, a.isPpr, baseDuty, rows)

\* line 221 passes { price, isPpr, isLand }: isFhb is undefined there
calcDutyBase(a, rules, mode, rows, baseDuty) ==
    IF baseDuty.threw THEN baseDuty
    ELSE calcDutyConcessions(a, rules, rows, baseDuty.value,
             applyFhbConcessions(rules, a.price, a.isPpr, a.isLand, FALSE,
                                 baseDuty.value, mode, rows))

calcDutyRows(a, rules, mode, rows) ==
    calcDutyBase(a, rules, mode, rows, calcFromRows(rows, a.price))

calcDutyMode(a, rules, mode) ==
    calcDutyRows(a, rules, mode, resolveModeSchedule(mode, rules))

calcDuty(a, rules) ==
    IF a.state = "" THEN Throw("InvalidInput")
    ELSE IF ~a.priceIsNumber THEN Throw("InvalidInput")
    ELSE IF toLowerCase(a.state) \notin STATE_FILES THEN Throw("UnsupportedJurisdiction")
    ELSE IF (IF rules.status = "" THEN "ready" ELSE rules.status) # "ready"
         THEN Throw("RuleSetNotReady")
    ELSE IF /\ toUpperCase(a.state) = "NT"
            /\ rules.formula.type = "nt_poly"
            /\ (rules.formula.max_applicable \in {NULL, 0}
                \/ a.price <= rules.formula.max_applicable)
         THEN Ok(calcDutyNtPoly(a.price))
    ELSE calcDutyMode(a, rules,
             pickSchedule(rules, a.state, a.price, a.isLand, a.isPpr, a.isFhb,
                          IF a.region = "" THEN "metro" ELSE a.region))

(***************************************************************************)
(* Rule files.  The JSON files under rules/ are not part of the sources;   *)
(* the tables below stand for them.  They are small enough for every       *)
(* price up to the search ceiling to be enumerated.                        *)
(***************************************************************************)
\* A row in the shape { lower_inclusive, upper_exclusive, base, marginal_rate, applies_above }
RowA(lower, upper, base, rate, applies) ==
    [hasWA |-> TRUE, lower_inclusive |-> lower, to |-> upper, base |-> base,
     rate |-> rate, applies_above |-> applies]

\* A row in the legacy shape { to, base, rate }
RowB(upper, base, rate) ==
    [hasWA |-> FALSE, lower_inclusive |-> NULL, to |-> upper, base |-> base,
     rate |-> rate, applies_above |-> NULL]

ScheduleMode(rows) == [present |-> TRUE, shape |-> "schedule", rows |-> rows, inherits |-> ""]

InheritsMode(name) == [present |-> TRUE, shape |-> "none", rows |-> <<>>, inherits |-> name]

NoFormula == [type |-> "", max_applicable |-> NULL]

NoFhb == [enabled |-> FALSE, concessions |-> <<>>]

\* Progressive marginal schedule: 1% to 1,000, 3% to 3,000, 5% above.
ProgressiveRows ==
    << RowA(0, 1000, 0, 100, 0), RowA(1000, 3000, 10, 300, 1000), RowA(3000, NULL, 70, 500, 3000) >>

\* Schedule whose top tier is a flat percentage of the whole price (the
\* "flat tier" of the ACT and NT tables): 1% to 1,000, 6% to 2,000, then
\* 3% of the total, so the duty steps down from 70 to 60 at 2,000.
FlatTopRows ==
    << RowA(0, 1000, 0, 100, 0), RowA(1000, 2000, 10, 600, 1000), RowA(2000, NULL, 0, 300, 0) >>

\* Owner-occupier schedule of the flat-top jurisdiction.
FlatTopPprRows ==
    << RowA(0, 1500, 0, 50, 0), RowA(1500, NULL, 0, 300, 0) >>

\* Legacy-shape schedule: a flat 50 up to 3,000, then 1.75% on the excess.
LegacyRows == << RowB(3000, 50, 0), RowB(NULL, 50, 175) >>

RuleFile(state) ==
    CASE state = "NSW" ->
           [status |-> "ready", formula |-> NoFormula, fhb |-> NoFhb,
            modes |-> [m \in {"established", "land"} |->
                         IF m = "established" THEN ScheduleMode(ProgressiveRows)
                         ELSE InheritsMode("established")]]
      [] state = "ACT" ->
           [status |-> "", formula |-> NoFormula, fhb |-> NoFhb,
            modes |-> [m \in {"established", "ppr"} |->
                         IF m = "established" THEN ScheduleMode(FlatTopRows)
                         ELSE ScheduleMode(FlatTopPprRows)]]
      [] state = "TAS" ->
           [status |-> "ready", formula |-> NoFormula, fhb |-> NoFhb,
            modes |-> [m \in {"established"} |-> ScheduleMode(LegacyRows)]]
      [] OTHER ->
           [status |-> "draft", formula |-> NoFormula, fhb |-> NoFhb,
            modes |-> [m \in {"established"} |-> ScheduleMode(ProgressiveRows)]]

(***************************************************************************)
(* Rule files at statutory scale, for the duty engine on its own.  Each    *)
(* stands for one possible content of a jurisdiction's rule file; the      *)
(* figures follow the ones the tests quote where they quote any.           *)
(***************************************************************************)
\* rules.modes of a file: the six mode names, NoMode for a mode the file lacks
ModesOf(est, land, ppr, fhbLand, fhbMetro, fhbNonMetro) ==
    [m \in ModeNames |->
        CASE m = "established" -> est
          [] m = "land" -> land
          [] m = "ppr" -> ppr
          [] m = "fhb_land" -> fhbLand
          [] m = "fhb_home_metro" -> fhbMetro
          [] m = "fhb_home_nonmetro" -> fhbNonMetro]

\* A declarative concession rule
FhbRule(propertyType, pprFlag, from, to, type, basis) ==
    [property_type |-> propertyType, isPpr |-> pprFlag, from |-> from, to |-> to,
     type |-> type, basis |-> basis, cap_price |-> 0, cap_mode |-> ""]

FhbBlock(rows) == [enabled |-> TRUE, concessions |-> rows]

\* NSW: 1.5% to 372,000, then 5,580 + 4.5% of the excess
NswRows == << RowA(0, 372000, 0, 150, 0), RowA(372000, NULL, 5580, 450, 372000) >>

\* VIC general: 4% to 480,000, then 19,200 + 6% of the excess
VicRows == << RowA(0, 480000, 0, 400, 0), RowA(480000, NULL, 19200, 600, 480000) >>

\* VIC owner-occupier: 3% to 440,000, then 13,200 + 5% of the excess
VicPprRows == << RowA(0, 440000, 0, 300, 0), RowA(440000, NULL, 13200, 500, 440000) >>

\* QLD general: 17,325 at 540,000
QldRows ==
    << RowA(0, 75000, 0, 140, 0), RowA(75000, 540000, 1050, 350, 75000),
       RowA(540000, NULL, 17325, 450, 540000) >>

\* QLD owner-occupier: 3,500 at 350,000, 17,350 at 700,000, 21,850 at 800,000
QldPprRows ==
    << RowA(0, 350000, 0, 100, 0), RowA(350000, 540000, 3500, 350, 350000),
       RowA(540000, NULL, 10150, 450, 540000) >>

\* WA general: 11,115 at 360,000
WaRows ==
    << RowA(0, 150000, 0, 209, 0), RowA(150000, 360000, 3135, 380, 150000),
       RowA(360000, NULL, 11115, 475, 360000) >>

\* WA first-home schedules: nil to the threshold, then a rate on the excess
WaFhbMetroRows == << RowA(0, 500000, 0, 0, 0), RowA(500000, NULL, 0, 1363, 500000) >>

WaFhbNonMetroRows == << RowA(0, 500000, 0, 0, 0), RowA(500000, NULL, 0, 1189, 500000) >>

WaFhbLandRows == << RowA(0, 350000, 0, 0, 0), RowA(350000, NULL, 0, 1539, 350000) >>

\* A vacant-land schedule of its own: 3% throughout
WaLandRows == << RowA(0, NULL, 0, 300, 0) >>

\* SA: 4% to 500,000, then 20,000 + 5.5% of the excess
SaRows == << RowA(0, 500000, 0, 400, 0), RowA(500000, NULL, 20000, 550, 500000) >>

\* The same schedule with a second row that carries neither base nor rate
SaRowsNoBase ==
    << RowA(0, 500000, 0, 400, 0), RowA(500000, NULL, NULL, NULL, 500000) >>

\* The same schedule with nothing declared between 500,000 and 550,000
SaRowsGap == << RowA(0, 500000, 0, 400, 0), RowA(550000, NULL, 22000, 550, 550000) >>

\* Legacy rows whose last row is closed at 700,000
TasRowsClosed == << RowB(500000, 0, 350), RowB(700000, 17500, 450) >>

\* TAS, legacy rows: 40,185 at 1,000,000
TasRows == << RowB(725000, 0, 350), RowB(NULL, 27810, 450) >>

\* ACT: 2,400 at 200,000; owner-occupier 728 at 260,000
ActRows ==
    << RowA(0, 200000, 0, 120, 0), RowA(200000, 300000, 2400, 220, 200000),
       RowA(300000, NULL, 4600, 340, 300000) >>

ActPprRows == << RowA(0, 260000, 0, 28, 0), RowA(260000, NULL, 728, 220, 260000) >>

\* NT above the closed form: 4.95% of the whole price
NtRows == << RowA(0, 3000000, 0, 495, 0), RowA(3000000, NULL, 0, 575, 0) >>

NtFormula == [type |-> "nt_poly", max_applicable |-> 525000]

RuleSet(status, formula, fhb, modes) ==
    [status |-> status, formula |-> formula, fhb |-> fhb, modes |-> modes]

\* A first-home rule for established homes: nil to 500,000, linear to the
\* buyer's own schedule at 700,000
HomeTaperRule == FhbRule("established", "absent", 500000, 700000, "linear_to_full", "")

\* A first-home rule for owner-occupied homes: nil to 500,000, linear to the
\* general schedule at 600,000
PprTaperRule == FhbRule("established", "true", 500000, 600000, "linear_to_full", "general")

\* Two first-home rules for established homes, one after the other: nil to
\* 500,000 with a taper to 600,000, then a taper from 600,000 to 800,000
ShortTaperRule == FhbRule("established", "absent", 500000, 600000, "linear_to_full", "")

LaterTaperRule == FhbRule("established", "absent", 600000, 800000, "linear_to_full", "")

\* The possible contents of the rule files, by name
DutyRules(file) ==
    CASE file = "nsw" ->
           RuleSet("ready", NoFormula, NoFhb,
                   ModesOf(ScheduleMode(NswRows), InheritsMode("established"),
                           NoMode, NoMode, NoMode, NoMode))
      [] file = "nsw_fhb" ->
           RuleSet("ready", NoFormula, FhbBlock(<<HomeTaperRule>>),
                   ModesOf(ScheduleMode(NswRows), InheritsMode("established"),
                           NoMode, NoMode, NoMode, NoMode))
      [] file = "vic" ->
           RuleSet("ready", NoFormula, NoFhb,
                   ModesOf(ScheduleMode(VicRows), NoMode, ScheduleMode(VicPprRows),
                           NoMode, NoMode, NoMode))
      [] file = "vic_fhb" ->
           RuleSet("ready", NoFormula, FhbBlock(<<PprTaperRule>>),
                   ModesOf(ScheduleMode(VicRows), NoMode, ScheduleMode(VicPprRows),
                           NoMode, NoMode, NoMode))
      [] file = "vic_chain" ->
           RuleSet("ready", NoFormula, NoFhb,
                   ModesOf(ScheduleMode(VicRows), InheritsMode("established"),
                           InheritsMode("land"), NoMode, NoMode, NoMode))
      [] file = "vic_draft" ->
           RuleSet("draft", NoFormula, NoFhb,
                   ModesOf(ScheduleMode(VicRows), NoMode, ScheduleMode(VicPprRows),
                           NoMode, NoMode, NoMode))
      [] file = "qld" ->
           RuleSet("ready", NoFormula, NoFhb,
                   ModesOf(ScheduleMode(QldRows), NoMode, ScheduleMode(QldPprRows),
                           NoMode, NoMode, NoMode))
      [] file = "qld_fhb" ->
           RuleSet("ready", NoFormula, FhbBlock(<<PprTaperRule>>),
                   ModesOf(ScheduleMode(QldRows), NoMode, ScheduleMode(QldPprRows),
                           NoMode, NoMode, NoMode))
      [] file = "wa" ->
           RuleSet("ready", NoFormula, NoFhb,
                   ModesOf(ScheduleMode(WaRows), InheritsMode("established"), NoMode,
                           ScheduleMode(WaFhbLandRows), ScheduleMode(WaFhbMetroRows),
                           ScheduleMode(WaFhbNonMetroRows)))
      [] file = "wa_land" ->
           RuleSet("ready", NoFormula, NoFhb,
                   ModesOf(ScheduleMode(WaRows), ScheduleMode(WaLandRows), NoMode,
                           ScheduleMode(WaFhbLandRows), ScheduleMode(WaFhbMetroRows),
                           ScheduleMode(WaFhbNonMetroRows)))
      [] file = "wa_chain" ->
           RuleSet("ready", NoFormula, NoFhb,
                   ModesOf(ScheduleMode(WaRows), InheritsMode("ppr"),
                           InheritsMode("established"), NoMode, NoMode, NoMode))
      [] file = "wa_plain" ->
           RuleSet("ready", NoFormula, NoFhb,
                   ModesOf(ScheduleMode(WaRows), NoMode, NoMode, NoMode, NoMode, NoMode))
      [] file = "sa" ->
           RuleSet("ready", NoFormula, NoFhb,
                   ModesOf(ScheduleMode(SaRows), NoMode, NoMode, NoMode, NoMode, NoMode))
      [] file = "sa_fhb" ->
           RuleSet("ready", NoFormula, FhbBlock(<<HomeTaperRule>>),
                   ModesOf(ScheduleMode(SaRows), NoMode, NoMode, NoMode, NoMode, NoMode))
      [] file = "sa_two_rules" ->
           RuleSet("ready", NoFormula, FhbBlock(<<ShortTaperRule, LaterTaperRule>>),
                   ModesOf(ScheduleMode(SaRows), NoMode, NoMode, NoMode, NoMode, NoMode))
      [] file = "sa_empty" ->
           RuleSet("ready", NoFormula, NoFhb,
                   ModesOf(ScheduleMode(<<>>), NoMode, NoMode, NoMode, NoMode, NoMode))
      [] file = "sa_missing" ->
           RuleSet("ready", NoFormula, NoFhb,
                   ModesOf(NoMode, NoMode, NoMode, NoMode, NoMode, NoMode))
      [] file = "sa_no_base" ->
           RuleSet("ready", NoFormula, NoFhb,
                   ModesOf(ScheduleMode(SaRowsNoBase), NoMode, NoMode, NoMode, NoMode, NoMode))
      [] file = "sa_gap" ->
           RuleSet("ready", NoFormula, NoFhb,
                   ModesOf(ScheduleMode(SaRowsGap), NoMode, NoMode, NoMode, NoMode, NoMode))
      [] file = "tas_closed" ->
           RuleSet("ready", NoFormula, NoFhb,
                   ModesOf(ScheduleMode(TasRowsClosed), NoMode, NoMode, NoMode, NoMode, NoMode))
      [] file = "tas" ->
           RuleSet("ready", NoFormula, NoFhb,
                   ModesOf(ScheduleMode(TasRows), NoMode, NoMode, NoMode, NoMode, NoMode))
      [] file = "tas_review" ->
           RuleSet("review", NoFormula, NoFhb,
                   ModesOf(ScheduleMode(TasRows), NoMode, NoMode, NoMode, NoMode, NoMode))
      [] file = "act" ->
           RuleSet("", NoFormula, NoFhb,
                   ModesOf(ScheduleMode(ActRows), NoMode, ScheduleMode(ActPprRows),
                           NoMode, NoMode, NoMode))
      [] file = "nt" ->
           RuleSet("ready", NtFormula, NoFhb,
                   ModesOf(ScheduleMode(NtRows), NoMode, NoMode, NoMode, NoMode, NoMode))
      [] file = "nt_draft" ->
           RuleSet("draft", NtFormula, NoFhb,
                   ModesOf(ScheduleMode(NtRows), NoMode, NoMode, NoMode, NoMode, NoMode))
      [] OTHER ->
           RuleSet("ready", NoFormula, NoFhb,
                   ModesOf(NoMode, NoMode, NoMode, NoMode, NoMode, NoMode))

\* What the rule file of a jurisdiction may hold (none for an unknown code)
RuleFilesOf(state) ==
    CASE toLowerCase(state) = "nsw" -> {"nsw", "nsw_fhb"}
      [] toLowerCase(state) = "vic" -> {"vic", "vic_fhb", "vic_chain", "vic_draft"}
      [] toLowerCase(state) = "qld" -> {"qld", "qld_fhb"}
      [] toLowerCase(state) = "wa"  -> {"wa", "wa_land", "wa_chain", "wa_plain"}
      [] toLowerCase(state) = "sa"  -> {"sa", "sa_fhb", "sa_two_rules", "sa_empty", "sa_missing", "sa_no_base", "sa_gap"}
      [] toLowerCase(state) = "tas" -> {"tas", "tas_review", "tas_closed"}
      [] toLowerCase(state) = "act" -> {"act"}
      [] toLowerCase(state) = "nt"  -> {"nt", "nt_draft"}
      [] OTHER -> {"none"}

(***************************************************************************)
(* Collaborators of the solver                                             *)
(***************************************************************************)
\* hgs.js module.exports
HgsExports == {"hgsEligible", "loadHGS"}

\* lmi.js module.exports
LmiExports == {"calcLmi", "loadLMI"}

\* purchasingPower.js: hgsFn = require('./hgs').checkHgsEligibility
hgsFn == IF "checkHgsEligibility" \in HgsExports THEN "function" ELSE "undefined"

\* purchasingPower.js: lmiFn = require('./lmi').calculateLmi
lmiFn == IF "calculateLmi" \in LmiExports THEN "function" ELSE "undefined"

\* The guarantee caps file (rules/guarantees): dates are yyyymmdd numbers.
HgsRules ==
    [effective_from |-> 20251001,
     caps |-> << [state |-> "NSW", region |-> "capital_and_regional_centres", property_cap |-> 1500],
                 [state |-> "ACT", region |-> "capital_and_regional_centres", property_cap |-> 1000] >>]

\* hgs.js hgsEligible; region and contractDate are "" / NULL when not given.
hgsEligible(state, region, price, contractDate) ==
    LET st   == IF state = "" THEN "NSW" ELSE state
        reg  == IF region = "" THEN "capital_and_regional_centres" ELSE region
        date == IF contractDate = NULL THEN 20251010 ELSE contractDate
        hit  == {k \in 1..Len(HgsRules.caps) :
                   HgsRules.caps[k].state = st /\ HgsRules.caps[k].region = reg}
        cap  == HgsRules.caps[CHOOSE k \in hit : \A j \in hit : k <= j]
    IN IF date < HgsRules.effective_from THEN FALSE
       ELSE IF hit = {} THEN FALSE
       ELSE price <= cap.property_cap

(***************************************************************************)
(* The purchasing-power solver (purchasingPower.js, first definition)      *)
(***************************************************************************)
MaxIter == 42

UpperChar(c) ==
    CASE c = "n" -> "N" [] c = "s" -> "S" [] c = "w" -> "W" [] c = "a" -> "A"
      [] c = "c" -> "C" [] c = "t" -> "T" [] c = "q" -> "Q" [] c = "l" -> "L"
      [] c = "d" -> "D" [] c = "v" -> "V" [] c = "i" -> "I" [] c = "x" -> "X"
      [] OTHER -> c

RECURSIVE trimStart(_)
trimStart(cs) == IF Len(cs) > 0 /\ Head(cs) = " " THEN trimStart(Tail(cs)) ELSE cs

RECURSIVE trimEnd(_)
trimEnd(cs) ==
    IF Len(cs) > 0 /\ cs[Len(cs)] = " " THEN trimEnd(SubSeq(cs, 1, Len(cs) - 1)) ELSE cs

\* String.prototype.trim on a sequence of characters
trim(cs) == trimEnd(trimStart(cs))

\* String.prototype.toUpperCase on a sequence of characters
toUpperCaseChars(cs) == [k \in 1..Len(cs) |-> UpperChar(cs[k])]

\* The keys of validStates, as character sequences and as the strings
\* the duty engine is given.
validStates ==
    [cs \in { <<"N","S","W">>, <<"V","I","C">>, <<"Q","L","D">>, <<"W","A">>,
              <<"S","A">>, <<"T","A","S">>, <<"A","C","T">>, <<"N","T">> } |->
       CASE cs = <<"N","S","W">> -> "NSW" [] cs = <<"V","I","C">> -> "VIC"
         [] cs = <<"Q","L","D">> -> "QLD" [] cs = <<"W","A">> -> "WA"
         [] cs = <<"S","A">> -> "SA" [] cs = <<"T","A","S">> -> "TAS"
         [] cs = <<"A","C","T">> -> "ACT" [] cs = <<"N","T">> -> "NT"]

\* stateCode = typeof state === 'string' ? state.trim().toUpperCase() : ''
stateCodeOf(state) == IF state.isString THEN toUpperCaseChars(trim(state.chars)) ELSE <<>>

\* A faulty variant of validate: the sign of borrowingPower is not tested.
validate_unsigned(in) ==
    IF in.borrowingPower.kind # "finite" THEN "InvalidInput"
    ELSE IF stateCodeOf(in.state) \notin DOMAIN validStates THEN "InvalidInput"
    ELSE ""

\* The validation at the head of solvePurchasingPower: "" when the input passes.
validate(in) ==
    IF in.borrowingPower.kind # "finite" \/ in.borrowingPower.val <= 0 THEN "InvalidInput"
    ELSE IF stateCodeOf(in.state) \notin DOMAIN validStates THEN "InvalidInput"
    ELSE ""

stateCode(in) == validStates[stateCodeOf(in.state)]

otherGovtFees(in) == IF in.includeOtherGovtFees THEN 3000 ELSE 0

\* resolveModeAtPrice: hgsEligible returns a boolean, which has no
\* property `eligible`, so `h && h.eligible` is falsy whatever h is.
resolveModeAtPrice(in, price) ==
    IF in.lmi_policy = "fhb_guarantee" /\ hgsFn # "undefined"
    THEN LET h == hgsEligible(stateCode(in), "", price, NULL)
         IN IF h /\ FALSE THEN "fhb_guarantee" ELSE "allow_lmi"
    ELSE in.lmi_policy

\* A faulty variant of policyLvrCap: one cap for every mode.
policyLvrCap_single(mode) == 95

policyLvrCap(mode) == IF mode = "no_lmi" THEN 80 ELSE 95

\* effectiveLvr is the fraction num / den.
Ratio(num, den) == [num |-> num, den |-> den]

\* What feasible returns for a price that is not a positive finite number.
NotAPrice ==
    [ok |-> FALSE, threw |-> FALSE, error |-> "none", duty |-> 0, otherGovtFees |-> 0,
     depositPortion |-> 0, lmiPrem |-> 0, lmiCashPortion |-> 0, capitalised |-> FALSE,
     baseLoan |-> 0, loanWithCapLmi |-> 0, cashNeeded |-> 0,
     effectiveLvr |-> Ratio(0, 1), mode |-> ""]

\* feasible(price).  baseLoan, depositPortion, loanWithCapLmi and cashNeeded
\* are the JavaScript values times LvrScale.  The statements of the function
\* are chained operators: lines 118-139 (constraints and the record),
\* 85-116 (loan, deposit, premium), 70-83 (mode, leverage, duty).
\* A faulty variant of cashNeeded: the deposit portion is left out.
cashNeeded_noDeposit(in, depositPortion, duty, lmiCashPortion) ==
    LvrScale * (duty + otherGovtFees(in) + lmiCashPortion)

\* line 119: cashNeeded = depositPortion + duty + otherGovtFees + lmiCashPortion
cashNeeded(in, depositPortion, duty, lmiCashPortion) ==
    depositPortion + LvrScale * (duty + otherGovtFees(in) + lmiCashPortion)

\* A faulty variant of cashOK: a dollar of slack on the cash side.
cashOK_slack(in, needed) == LvrScale * (in.depositCash + 1) >= needed

\* line 120: cashOK = depositCash >= cashNeeded
cashOK(in, needed) == LvrScale * in.depositCash >= needed

\* A faulty variant of bpOK: the loan is tested against the whole budget.
bpOK_budget(in, baseLoan) ==
    baseLoan <= LvrScale * (in.borrowingPower.val + in.depositCash)

\* line 122: bpOK = baseLoan <= borrowingPower (the base loan only)
bpOK(in, baseLoan) == baseLoan <= LvrScale * in.borrowingPower.val

\* lines 124, 135: baseLoan + (capitalised ? lmiPrem : 0)
loanWithCapLmi(baseLoan, lmiPrem, capitalised) ==
    baseLoan + (IF capitalised THEN LvrScale * lmiPrem ELSE 0)

feasibleRecord(price, in, mode, duty, baseLoan, depositPortion, lmiPrem, capitalised, lmiCashPortion) ==
    [ok |-> /\ cashOK(in, cashNeeded(in, depositPortion, duty, lmiCashPortion))
            /\ bpOK(in, baseLoan),
     threw |-> FALSE, error |-> "none", duty |-> duty,
     otherGovtFees |-> otherGovtFees(in), depositPortion |-> depositPortion,
     lmiPrem |-> lmiPrem, lmiCashPortion |-> lmiCashPortion,
     capitalised |-> capitalised, baseLoan |-> baseLoan,
     loanWithCapLmi |-> loanWithCapLmi(baseLoan, lmiPrem, capitalised),
     cashNeeded |-> cashNeeded(in, depositPortion, duty, lmiCashPortion),
     effectiveLvr |-> Ratio(loanWithCapLmi(baseLoan, lmiPrem, capitalised), LvrScale * price),
     mode |-> mode]

\* lmiFn, were it defined, is handed { price, targetLvr, capitalise }:
\* calcLmi reads loan and lvr, finds neither and returns NaN, which the
\* caller turns into premium 0, capitalised.  Undefined, the premium is
\* Math.round(price * 0.02), capitalised.
lmiPremium(mode, price) ==
    IF mode = "allow_lmi"
    THEN (IF lmiFn # "undefined" THEN 0 ELSE RoundHalfUp(price * 2, 100))
    ELSE 0

feasibleLoan(price, in, mode, duty, baseLoan, lmiPrem, capitalised) ==
    feasibleRecord(price, in, mode, duty, baseLoan, Max2(0, LvrScale * price - baseLoan),
                   lmiPrem, capitalised,
                   IF mode = "allow_lmi" /\ ~capitalised THEN lmiPrem ELSE 0)

feasibleDuty(price, in, mode, lvrUsed, duty) ==
    IF duty.threw THEN [NotAPrice EXCEPT !.threw = TRUE, !.error = duty.error]
    ELSE feasibleLoan(price, in, mode, duty.value, lvrUsed * price,
                      lmiPremium(mode, price), mode = "allow_lmi")

feasibleMode(price, in, mode) ==
    feasibleDuty(price, in, mode, Min2(Max2(in.targetLvr, 50), policyLvrCap(mode)),
                 calcDuty([state |-> stateCode(in), price |-> price, priceIsNumber |-> TRUE,
                           isLand |-> in.isLand, isFhb |-> in.isFhb, isPpr |-> in.isPpr,
                           region |-> in.region],
                          RuleFile(stateCode(in))))

feasible(price, in) ==
    IF price <= 0 THEN NotAPrice ELSE feasibleMode(price, in, resolveModeAtPrice(in, price))

\* best = { price: 0, proof: null }
NoProof == [null |-> TRUE]

\* hi = Math.max(1, Math.floor((borrowingPower + depositCash) * 1.2))
initialHi(in) == Max2(1, (12 * (in.borrowingPower.val + in.depositCash)) \div 10)

initialSearch(in) ==
    [lo |-> 1, hi |-> initialHi(in), best |-> [price |-> 0, proof |-> NoProof], i |-> 0,
     exited |-> FALSE, threw |-> FALSE, error |-> "none"]

\* A faulty variant of loopExit: the break on hi < lo is missing.
loopExit_counterOnly(lo2, hi2, i2) == i2 >= MaxIter

\* A faulty variant of loopExit: the loop gives up after its first pass.
loopExit_firstPass(lo2, hi2, i2) == hi2 < lo2 \/ i2 >= 1

\* The loop's exit test after the body: break when hi < lo, or leave when
\* the counter reaches its bound.
loopExit(lo2, hi2, i2) == hi2 < lo2 \/ i2 >= MaxIter

\* A faulty variant of loopUpdate: a failed probe moves hi two below mid.
loopUpdate_skip(s, mid, f) ==
    IF f.threw THEN [s EXCEPT !.threw = TRUE, !.error = f.error]
    ELSE [lo |-> IF f.ok THEN mid + 1 ELSE s.lo,
          hi |-> IF f.ok THEN s.hi ELSE mid - 2,
          best |-> IF f.ok THEN [price |-> mid, proof |-> f] ELSE s.best,
          i |-> s.i + 1,
          exited |-> loopExit(IF f.ok THEN mid + 1 ELSE s.lo,
                              IF f.ok THEN s.hi ELSE mid - 2, s.i + 1),
          threw |-> FALSE, error |-> "none"]

\* A faulty variant of loopUpdate: best is overwritten by every probe.
loopUpdate_staleBest(s, mid, f) ==
    IF f.threw THEN [s EXCEPT !.threw = TRUE, !.error = f.error]
    ELSE [lo |-> IF f.ok THEN mid + 1 ELSE s.lo,
          hi |-> IF f.ok THEN s.hi ELSE mid - 1,
          best |-> [price |-> mid, proof |-> f],
          i |-> s.i + 1,
          exited |-> loopExit(IF f.ok THEN mid + 1 ELSE s.lo,
                              IF f.ok THEN s.hi ELSE mid - 1, s.i + 1),
          threw |-> FALSE, error |-> "none"]

\* One iteration of the binary search: the statements after f = feasible(mid).
loopUpdate(s, mid, f) ==
    IF f.threw THEN [s EXCEPT !.threw = TRUE, !.error = f.error]
    ELSE [lo |-> IF f.ok THEN mid + 1 ELSE s.lo,
          hi |-> IF f.ok THEN s.hi ELSE mid - 1,
          best |-> IF f.ok THEN [price |-> mid, proof |-> f] ELSE s.best,
          i |-> s.i + 1,
          exited |-> loopExit(IF f.ok THEN mid + 1 ELSE s.lo,
                              IF f.ok THEN s.hi ELSE mid - 1, s.i + 1),
          threw |-> FALSE, error |-> "none"]

loopProbe(s, in, mid) == loopUpdate(s, mid, feasible(mid, in))

\* mid = Math.floor((lo + hi) / 2)
loopBody(s, in) == loopProbe(s, in, (s.lo + s.hi) \div 2)

\* The record returned when best.proof is null.
infeasibleResult(in, f0) ==
    [maxPrice |-> 0,
     explain |-> [borrowingPower |-> in.borrowingPower.val, depositCash |-> in.depositCash,
                  dutyAtMax |-> f0.duty, otherGovtFees |-> otherGovtFees(in),
                  depositRequiredAtMax |-> NULL,
                  lmiPremiumAtMax |-> f0.lmiPrem, lmiCashPortionAtMax |-> f0.lmiCashPortion,
                  cashNeededAtMax |-> f0.cashNeeded, loanBaseAtMax |-> f0.baseLoan,
                  loanWithCapLmiAtMax |-> f0.loanWithCapLmi,
                  lvr_effective |-> IF f0.effectiveLvr.num = 0
                                    THEN Ratio(Min2(in.targetLvr, 95), LvrScale)
                                    ELSE f0.effectiveLvr,
                  mode |-> IF f0.mode = "" THEN resolveModeAtPrice(in, 1) ELSE f0.mode,
                  note |-> "Infeasible with current inputs"]]

\* The record returned for the best price found.
feasibleResult(in, best) ==
    [maxPrice |-> best.price,
     explain |-> [borrowingPower |-> in.borrowingPower.val, depositCash |-> in.depositCash,
                  dutyAtMax |-> best.proof.duty, otherGovtFees |-> otherGovtFees(in),
                  depositRequiredAtMax |-> best.proof.depositPortion,
                  lmiPremiumAtMax |-> best.proof.lmiPrem,
                  lmiCashPortionAtMax |-> best.proof.lmiCashPortion,
                  cashNeededAtMax |-> best.proof.cashNeeded,
                  loanBaseAtMax |-> best.proof.baseLoan,
                  loanWithCapLmiAtMax |-> best.proof.loanWithCapLmi,
                  lvr_effective |-> best.proof.effectiveLvr,
                  mode |-> best.proof.mode,
                  note |-> ""]]

RECURSIVE runLoop(_, _)
runLoop(s, in) == IF s.exited \/ s.threw THEN s ELSE runLoop(loopBody(s, in), in)

\* solvePurchasingPower / solveMaxPrice as a function of its input:
\* [threw, error, result].
NoResult == [maxPrice |-> NULL]

solveInfeasible(in, f0) ==
    IF f0.threw THEN [threw |-> TRUE, error |-> f0.error, result |-> NoResult]
    ELSE [threw |-> FALSE, error |-> "none", result |-> infeasibleResult(in, f0)]

solveFinish(in, s) ==
    IF s.threw THEN [threw |-> TRUE, error |-> s.error, result |-> NoResult]
    ELSE IF s.best.proof = NoProof THEN solveInfeasible(in, feasible(1, in))
    ELSE [threw |-> FALSE, error |-> "none", result |-> feasibleResult(in, s.best)]

solvePurchasingPower(in) ==
    IF validate(in) # "" THEN [threw |-> TRUE, error |-> validate(in), result |-> NoResult]
    ELSE solveFinish(in, runLoop(initialSearch(in), in))

(***************************************************************************)
(* Inputs                                                                  *)
(***************************************************************************)
MaxBorrowSteps == 2

MaxCashSteps == 3

\* borrowingPower values: negative, zero, positive
BorrowSet == {1080 * k : k \in -1..MaxBorrowSteps}

CashSet == {1065 * k : k \in 0..MaxCashSteps}

\* targetLvr in percent: below the 0.50 floor, in range, above the 0.95 cap
LvrSet == {40, 90, 97}

Str(cs) == [isString |-> TRUE, chars |-> cs]

StateInputs ==
    { Str(<<"N", "S", "W">>), Str(<<" ", "a", "c", "t", " ">>), Str(<<"t", "a", "s">>),
      Str(<<"Q", "L", "D">>), Str(<<"x", "x">>), [isString |-> FALSE, chars |-> <<>>] }

BorrowInputs ==
    {[kind |-> "finite", val |-> v] : v \in BorrowSet} \cup {[kind |-> "nan", val |-> 0]}

\* (isFhb, isPpr, isLand)
Profiles == { <<FALSE, FALSE, FALSE>>, <<TRUE, TRUE, FALSE>>, <<FALSE, FALSE, TRUE>> }

Inputs ==
    { [state |-> st, borrowingPower |-> bp, depositCash |-> cash, targetLvr |-> lvr,
       lmi_policy |-> pol, includeOtherGovtFees |-> fees,
       isFhb |-> pr[1], isPpr |-> pr[2], isLand |-> pr[3], region |-> ""] :
        st \in StateInputs, bp \in BorrowInputs, cash \in CashSet, lvr \in LvrSet,
        pol \in {"no_lmi", "allow_lmi", "fhb_guarantee"}, fees \in BOOLEAN, pr \in Profiles }

(***************************************************************************)
(* One call of solvePurchasingPower, step by step                          *)
(***************************************************************************)
\* probed is the history of the loop's calls of feasible: the price and the
\* outcome of each
VARIABLES input, pc, lo, hi, best, i, probe, evals, result, error, probed

\* One call of calcDuty: its argument object, the rule file on disk, the
\* position in the function body, the locals mode / rows / baseDuty, the
\* outcome, and the statements passed so far
VARIABLES dutyArgs, dutyFile, dutyPc, dutyMode, dutyRows, dutyBase, dutyOut, dutyTrace

solverVars == <<input, pc, lo, hi, best, i, probe, evals, result, error, probed>>

dutyVars == <<dutyArgs, dutyFile, dutyPc, dutyMode, dutyRows, dutyBase, dutyOut, dutyTrace>>

vars == <<solverVars, dutyVars>>

NoArgs == [state |-> "", price |-> 0, priceIsNumber |-> FALSE, isLand |-> FALSE,
           isFhb |-> FALSE, isPpr |-> FALSE, region |-> ""]

\* No call of calcDuty is being followed
DutyIdle ==
    /\ dutyArgs = NoArgs
    /\ dutyFile = "none"
    /\ dutyPc = "idle"
    /\ dutyMode = NoMode
    /\ dutyRows = <<>>
    /\ dutyBase = Ok(0)
    /\ dutyOut = Ok(0)
    /\ dutyTrace = <<>>

NoProbe == [price |-> 0, f |-> NotAPrice]

\* What the loop has learnt from one call of feasible(mid)
probedAt(mid, f) == [price |-> mid, ok |-> ~f.threw /\ f.ok, threw |-> f.threw]

Init ==
    /\ input \in Inputs
    /\ pc = "start"
    /\ lo = 1
    /\ hi = 1
    /\ best = [price |-> 0, proof |-> NoProof]
    /\ i = 0
    /\ probe = NoProbe
    /\ probed = {}
    /\ evals = 0
    /\ result = NoResult
    /\ error = "none"
    /\ DutyIdle

\* lines 36-45: the input is rejected before anything is evaluated
RejectInput ==
    /\ pc = "start"
    /\ validate(input) # ""
    /\ pc' = "error"
    /\ error' = validate(input)
    /\ UNCHANGED <<input, lo, hi, best, i, probe, evals, result, probed>>
    /\ UNCHANGED dutyVars

\* lines 143-145
BeginSearch ==
    /\ pc = "start"
    /\ validate(input) = ""
    /\ pc' = "search"
    /\ lo' = initialSearch(input).lo
    /\ hi' = initialSearch(input).hi
    /\ best' = initialSearch(input).best
    /\ i' = 0
    /\ UNCHANGED <<input, probe, evals, result, error, probed>>
    /\ UNCHANGED dutyVars

SearchState == [lo |-> lo, hi |-> hi, best |-> best, i |-> i,
                exited |-> FALSE, threw |-> FALSE, error |-> "none"]

\* lines 147-157: one pass of the loop body
Iterate ==
    /\ pc = "search"
    /\ \E s \in {loopBody(SearchState, input)} :
          /\ ~s.threw
          /\ lo' = s.lo
          /\ hi' = s.hi
          /\ best' = s.best
          /\ i' = s.i
          /\ pc' = IF s.exited THEN "finish" ELSE "search"
    /\ probe' = [price |-> (lo + hi) \div 2, f |-> feasible((lo + hi) \div 2, input)]
    /\ probed' = probed \cup {probedAt((lo + hi) \div 2, feasible((lo + hi) \div 2, input))}
    /\ evals' = evals + 1
    /\ UNCHANGED <<input, result, error>>
    /\ UNCHANGED dutyVars

\* the duty engine throws inside feasible: the exception leaves the solver
IterateThrows ==
    /\ pc = "search"
    /\ \E s \in {loopBody(SearchState, input)} :
          /\ s.threw
          /\ error' = s.error
    /\ probe' = [price |-> (lo + hi) \div 2, f |-> feasible((lo + hi) \div 2, input)]
    /\ probed' = probed \cup {probedAt((lo + hi) \div 2, feasible((lo + hi) \div 2, input))}
    /\ pc' = "error"
    /\ evals' = evals + 1
    /\ UNCHANGED <<input, lo, hi, best, i, result>>
    /\ UNCHANGED dutyVars

\* lines 159-178
ReturnInfeasible ==
    /\ pc = "finish"
    /\ best.proof = NoProof
    /\ \E f0 \in {feasible(1, input)} :
          /\ probe' = [price |-> 1, f |-> f0]
          /\ IF f0.threw
             THEN pc' = "error" /\ error' = f0.error /\ result' = result
             ELSE pc' = "done" /\ error' = error /\ result' = infeasibleResult(input, f0)
    /\ evals' = evals + 1
    /\ UNCHANGED <<input, lo, hi, best, i, probed>>
    /\ UNCHANGED dutyVars

\* lines 180-197
ReturnBest ==
    /\ pc = "finish"
    /\ best.proof # NoProof
    /\ pc' = "done"
    /\ result' = feasibleResult(input, best)
    /\ UNCHANGED <<input, lo, hi, best, i, probe, evals, error, probed>>
    /\ UNCHANGED dutyVars

Next == RejectInput \/ BeginSearch \/ Iterate \/ IterateThrows \/ ReturnInfeasible \/ ReturnBest

Spec == Init /\ [][Next]_vars

TypeOK ==
    /\ pc \in {"start", "search", "finish", "done", "error"}
    /\ i \in 0..MaxIter
    /\ evals \in 0..(MaxIter + 1)

(***************************************************************************)
(* Properties of the solver                                                *)
(***************************************************************************)
Returned == pc = "done"

\* C1: whenever the solver returns maxPrice > 0, the explanation's
\* cashNeededAtMax is at most depositCash and its loanBaseAtMax is at most
\* borrowingPower, and both are the figures feasible computes at exactly
\* the returned maxPrice.
C1_FeasibleAtMax ==
    (Returned /\ result.maxPrice > 0) =>
        /\ result.explain.cashNeededAtMax <= LvrScale * input.depositCash
        /\ result.explain.loanBaseAtMax <= LvrScale * input.borrowingPower.val
        /\ result.explain.cashNeededAtMax = feasible(result.maxPrice, input).cashNeeded
        /\ result.explain.loanBaseAtMax = feasible(result.maxPrice, input).baseLoan

\* A positive price is returned for which duty is payable.
C1_Witness ==
    /\ Returned
    /\ result.maxPrice > 0
    /\ result.explain.dutyAtMax > 0
    /\ result.explain.loanBaseAtMax > 0

\* The candidate prices of a call: 1 .. the initial hi.  A price above the
\* initial hi needs base loan plus deposit above borrowingPower + depositCash.
Candidates(in) == 1..initialHi(in)

\* C2: the returned maxPrice is the largest integer price p >= 1 for which
\* feasible(p) holds: it is feasible, and no greater price is feasible.
C2_LargestFeasible ==
    (Returned /\ result.maxPrice > 0) =>
        /\ feasible(result.maxPrice, input).ok
        /\ \A p \in Candidates(input) : p > result.maxPrice => ~feasible(p, input).ok

\* The tolerance the tests grant on the 0.95 cap (lvr <= 0.96), in LvrScale units.
LvrTolerance == 1

\* effectiveLvr <= cap + tolerance, for the fraction lvr and the cap in
\* LvrScale units.
WithinCap(lvr, cap) == LvrScale * lvr.num <= (cap + LvrTolerance) * lvr.den

\* C3: whenever the solver returns maxPrice > 0, the effective leverage it
\* reports (base loan plus capitalised premium, over price) is at most the
\* cap of the mode resolved at that price (0.80 for no_lmi, 0.95 for
\* allow_lmi and fhb_guarantee) plus the tolerance; and a candidate price
\* whose effective leverage exceeds that is not feasible.
C3_LeverageWithinCap ==
    /\ (Returned /\ result.maxPrice > 0) =>
           WithinCap(result.explain.lvr_effective,
                     IF result.explain.mode = "no_lmi" THEN 80 ELSE 95)
    /\ (probe.price > 0 /\ probe.f.ok) =>
           WithinCap(probe.f.effectiveLvr, IF probe.f.mode = "no_lmi" THEN 80 ELSE 95)

\* C4 as stated: a candidate price is feasible only if base loan plus the
\* capitalised premium is at most borrowingPower; hence at every returned
\* maxPrice > 0, loanWithCapLmiAtMax <= borrowingPower.
C4_LoanWithPremiumWithinBP ==
    /\ (probe.price > 0 /\ probe.f.ok) =>
           probe.f.loanWithCapLmi <= LvrScale * input.borrowingPower.val
    /\ (Returned /\ result.maxPrice > 0) =>
           result.explain.loanWithCapLmiAtMax <= LvrScale * input.borrowingPower.val

\* C4 as amended: a candidate price is feasible only if the base loan alone
\* is at most borrowingPower; the capitalised premium is added on top of it,
\* so at every returned maxPrice > 0, loanWithCapLmiAtMax is at most
\* borrowingPower plus lmiPremiumAtMax (and is the base loan when no premium
\* is charged).
C4_BaseLoanWithinBP ==
    /\ (probe.price > 0 /\ probe.f.ok) =>
           /\ probe.f.baseLoan <= LvrScale * input.borrowingPower.val
           /\ probe.f.loanWithCapLmi =
                  probe.f.baseLoan + (IF probe.f.capitalised THEN LvrScale * probe.f.lmiPrem ELSE 0)
    /\ (Returned /\ result.maxPrice > 0) =>
           /\ result.explain.loanWithCapLmiAtMax <=
                  LvrScale * (input.borrowingPower.val + result.explain.lmiPremiumAtMax)
           /\ result.explain.lmiPremiumAtMax = 0 =>
                  result.explain.loanWithCapLmiAtMax = result.explain.loanBaseAtMax

\* The returned loan with the capitalised premium exceeds borrowingPower.
C4_Witness ==
    /\ Returned
    /\ result.maxPrice > 0
    /\ result.explain.lmiPremiumAtMax > 0
    /\ result.explain.loanWithCapLmiAtMax > LvrScale * input.borrowingPower.val

\* The inputs that differ from `in` only by a larger depositCash, or only
\* by a larger borrowingPower.
LargerCash(in) == {[in EXCEPT !.depositCash = c] : c \in {c \in CashSet : c > in.depositCash}}

LargerBorrow(in) ==
    {[in EXCEPT !.borrowingPower.val = v] : v \in {v \in BorrowSet : v > in.borrowingPower.val}}

maxPriceOf(in) == solvePurchasingPower(in).result.maxPrice

\* C5: of two inputs that differ only in depositCash, or only in
\* borrowingPower, the one with the larger value never yields a smaller
\* maxPrice.
C5_Monotone ==
    Returned =>
        \A in2 \in LargerCash(input) \cup LargerBorrow(input) :
            maxPriceOf(in2) >= result.maxPrice

NoFeasiblePrice == \A p \in Candidates(input) : ~feasible(p, input).ok

\* C6: when no price >= 1 is feasible the solver does not throw: it returns
\* maxPrice = 0 with the duty, premium, cash-needed, loan and mode figures of
\* the feasibility evaluation at price 1 and the infeasibility note; and it
\* returns maxPrice = 0 only when no price is feasible.  (A call that ends
\* in an error either failed validation or had the duty engine throw in a
\* feasibility evaluation, which then has no outcome.)
C6_InfeasibleResult ==
    /\ (Returned /\ result.maxPrice = 0) =>
           /\ NoFeasiblePrice
           /\ result.explain.dutyAtMax = feasible(1, input).duty
           /\ result.explain.lmiPremiumAtMax = feasible(1, input).lmiPrem
           /\ result.explain.lmiCashPortionAtMax = feasible(1, input).lmiCashPortion
           /\ result.explain.cashNeededAtMax = feasible(1, input).cashNeeded
           /\ result.explain.loanBaseAtMax = feasible(1, input).baseLoan
           /\ result.explain.loanWithCapLmiAtMax = feasible(1, input).loanWithCapLmi
           /\ result.explain.mode = feasible(1, input).mode
           /\ result.explain.note = "Infeasible with current inputs"
    /\ (Returned /\ result.maxPrice # 0) =>
           /\ result.maxPrice > 0
           /\ ~NoFeasiblePrice
           /\ result.explain.note = ""
    /\ pc = "error" => (validate(input) # "" \/ probe.f.threw)

\* The infeasible result is returned for an input with cash on hand.
C6_Witness ==
    /\ Returned
    /\ result.maxPrice = 0
    /\ input.depositCash > 0
    /\ result.explain.cashNeededAtMax > LvrScale * input.depositCash
    /\ probe.price = 1

\* lvr <= 0.80, for the fraction lvr
AtMost80(lvr) == LvrScale * lvr.num <= 80 * lvr.den

\* C7: under policy no_lmi, at every candidate price the leverage used is at
\* most 0.80 and the premium is 0; the returned explanation reports no
\* premium and an effective leverage of at most 0.80.
C7_NoLmi ==
    input.lmi_policy = "no_lmi" =>
        /\ (probe.price > 0 /\ ~probe.f.threw) =>
               /\ probe.f.mode = "no_lmi"
               /\ probe.f.baseLoan <= 80 * probe.price
               /\ probe.f.lmiPrem = 0
               /\ probe.f.lmiCashPortion = 0
               /\ AtMost80(probe.f.effectiveLvr)
        /\ Returned =>
               /\ result.explain.lmiPremiumAtMax = 0
               /\ AtMost80(result.explain.lvr_effective)

\* A no_lmi call asking for more than 0.80 returns a price at exactly 0.80.
C7_Witness ==
    /\ input.lmi_policy = "no_lmi"
    /\ input.targetLvr > 80
    /\ Returned
    /\ result.maxPrice > 0
    /\ LvrScale * result.explain.lvr_effective.num = 80 * result.explain.lvr_effective.den

\* The eligibility check at a price, called as the solver calls it
\* (state and price given, region and contract date left to their defaults).
EligibleAt(price) == hgsEligible(stateCode(input), "", price, NULL)

\* C8: under policy fhb_guarantee the mode recorded for a candidate price is
\* fhb_guarantee (premium 0) if and only if the eligibility check reports
\* eligible at that price, and allow_lmi at every price where it reports
\* ineligible.
C8_ModeFollowsEligibility ==
    (input.lmi_policy = "fhb_guarantee" /\ probe.price > 0 /\ ~probe.f.threw) =>
        /\ probe.f.mode = "fhb_guarantee" <=> EligibleAt(probe.price)
        /\ probe.f.mode = "fhb_guarantee" => probe.f.lmiPrem = 0
        /\ ~EligibleAt(probe.price) => probe.f.mode = "allow_lmi"

SupportedCodes ==
    { <<"N","S","W">>, <<"V","I","C">>, <<"Q","L","D">>, <<"W","A">>,
      <<"S","A">>, <<"T","A","S">>, <<"A","C","T">>, <<"N","T">> }

InvalidBorrowingPower == input.borrowingPower.kind # "finite" \/ input.borrowingPower.val <= 0

InvalidJurisdiction ==
    \/ ~input.state.isString
    \/ toUpperCaseChars(trim(input.state.chars)) \notin SupportedCodes

\* C9: when borrowingPower is not a finite number greater than 0, or the
\* jurisdiction, trimmed and upper-cased, is none of NSW, VIC, QLD, WA, SA,
\* TAS, ACT, NT, the call fails with InvalidInput before any candidate price
\* is evaluated and returns no result.
C9_InvalidInput ==
    (InvalidBorrowingPower \/ InvalidJurisdiction) =>
        /\ evals = 0
        /\ probe = NoProbe
        /\ result = NoResult
        /\ pc \in {"start", "error"}
        /\ pc = "error" => error = "InvalidInput"

\* A call with a usable borrowingPower is rejected for its jurisdiction.
C9_Witness ==
    /\ pc = "error"
    /\ error = "InvalidInput"
    /\ ~InvalidBorrowingPower
    /\ input.state.isString
    /\ InvalidJurisdiction

\* What is left to do: the phase, and within the search the passes left.
Rank ==
    CASE pc = "start"  -> 46
      [] pc = "search" -> 45 - i
      [] pc = "finish" -> 1
      [] OTHER         -> 0

\* The loop has made i passes with one feasibility evaluation (one duty
\* calculation) each, at most 42; it goes on only while lo <= hi; the
\* infeasible path adds one evaluation, at price 1.
SearchBounded ==
    /\ i <= 42
    /\ evals <= i + 1
    /\ pc = "search" => (evals = i /\ i < 42 /\ lo <= hi)
    /\ pc = "finish" => (evals = i /\ (hi < lo \/ i = 42))
    /\ Returned => /\ evals = i + (IF result.maxPrice = 0 THEN 1 ELSE 0)
                   /\ result.maxPrice = 0 => probe.price = 1
    /\ Rank >= 0

\* C10: the price search always terminates: for every valid input the loop
\* performs at most 42 feasibility evaluations, each with one duty
\* calculation, stops as soon as hi < lo, and is followed by at most one
\* further evaluation, at price 1, on the infeasible path.  Every step
\* lowers Rank, which is never negative, so no call runs forever.
C10_Terminates == []SearchBounded /\ [][Rank' < Rank]_vars

\* A search of ten passes or more ends on the infeasible path.
C10_Witness ==
    /\ Returned
    /\ result.maxPrice = 0
    /\ i >= 10
    /\ evals = i + 1
    /\ hi < lo

(***************************************************************************)
(* One call of calcDuty, statement by statement                            *)
(***************************************************************************)
MaxOffset == 1

MaxGridSteps == 3

\* The prices at which a schedule, a cap or a concession band changes
Boundaries ==
    {0, 350000, 450000, 500000, 525000, 550000, 600000, 700000, 750000, 800000, 1000000}

\* Prices at and next to each boundary, inside the bands, and below zero
DutyPrices ==
    {b + d : b \in Boundaries, d \in -MaxOffset..MaxOffset}
      \cup {702500 + 2500 * k : k \in 0..MaxGridSteps}
      \cup {675000, 900000, -5000}

DutyStates == {"NSW", "VIC", "QLD", "WA", "SA", "TAS", "ACT", "NT", "XX", ""}

RegionsOf(state) == IF state = "WA" THEN {"", "metro", "non_metro"} ELSE {""}

\* The argument objects: every numeric price with every flag, and one
\* price that is not a number
DutyArgs ==
    UNION { { [state |-> st, price |-> p, priceIsNumber |-> TRUE, isLand |-> land,
               isFhb |-> fhb, isPpr |-> ppr, region |-> r] :
                p \in DutyPrices, land \in BOOLEAN, fhb \in BOOLEAN, ppr \in BOOLEAN,
                r \in RegionsOf(st) } : st \in DutyStates }
      \cup { [state |-> st, price |-> 0, priceIsNumber |-> FALSE, isLand |-> FALSE,
              isFhb |-> fhb, isPpr |-> FALSE, region |-> ""] :
                st \in DutyStates, fhb \in BOOLEAN }

DutyInit ==
    /\ input \in {CHOOSE in \in Inputs : TRUE}
    /\ pc = "idle"
    /\ lo = 1
    /\ hi = 1
    /\ best = [price |-> 0, proof |-> NoProof]
    /\ i = 0
    /\ probe = NoProbe
    /\ probed = {}
    /\ evals = 0
    /\ result = NoResult
    /\ error = "none"
    /\ dutyArgs \in DutyArgs
    /\ dutyFile \in RuleFilesOf(dutyArgs.state)
    /\ dutyPc = "start"
    /\ dutyMode = NoMode
    /\ dutyRows = <<>>
    /\ dutyBase = Ok(0)
    /\ dutyOut = Ok(0)
    /\ dutyTrace = <<>>

\* What loadRules returns for the call
LoadedRules == DutyRules(dutyFile)

\* The call ends: a value is returned or an error thrown
DutyEnd(out, step) ==
    /\ dutyOut' = out
    /\ dutyPc' = IF out.threw THEN "thrown" ELSE "returned"
    /\ dutyTrace' = Append(dutyTrace, step)

\* lines 190-191
DutyRejectInput ==
    /\ dutyPc = "start"
    /\ dutyArgs.state = "" \/ ~dutyArgs.priceIsNumber
    /\ DutyEnd(Throw("InvalidInput"), "input")
    /\ UNCHANGED <<dutyArgs, dutyFile, dutyMode, dutyRows, dutyBase>>
    /\ UNCHANGED solverVars

\* line 193, loadRules throws: no rule file for the code
DutyUnsupported ==
    /\ dutyPc = "start"
    /\ dutyArgs.state # "" /\ dutyArgs.priceIsNumber
    /\ toLowerCase(dutyArgs.state) \notin STATE_FILES
    /\ DutyEnd(Throw("UnsupportedJurisdiction"), "loadRules")
    /\ UNCHANGED <<dutyArgs, dutyFile, dutyMode, dutyRows, dutyBase>>
    /\ UNCHANGED solverVars

\* line 193, loadRules returns
DutyLoadRules ==
    /\ dutyPc = "start"
    /\ dutyArgs.state # "" /\ dutyArgs.priceIsNumber
    /\ toLowerCase(dutyArgs.state) \in STATE_FILES
    /\ dutyPc' = "loaded"
    /\ dutyTrace' = Append(dutyTrace, "loadRules")
    /\ UNCHANGED <<dutyArgs, dutyFile, dutyMode, dutyRows, dutyBase, dutyOut>>
    /\ UNCHANGED solverVars

\* line 196: meta.status || 'ready'
statusOf(rules) == IF rules.status = "" THEN "ready" ELSE rules.status

\* A faulty variant of closedFormApplies: the closed form is used for homes
\* only.
closedFormApplies_homesOnly(a, rules) ==
    /\ toUpperCase(a.state) = "NT"
    /\ rules.formula.type = "nt_poly"
    /\ ~a.isLand
    /\ rules.formula.max_applicable \in {NULL, 0} \/ a.price <= rules.formula.max_applicable

\* lines 204-209: the NT closed form applies
closedFormApplies(a, rules) ==
    /\ toUpperCase(a.state) = "NT"
    /\ rules.formula.type = "nt_poly"
    /\ rules.formula.max_applicable \in {NULL, 0} \/ a.price <= rules.formula.max_applicable

\* lines 196-201
DutyNotReady ==
    /\ dutyPc = "loaded"
    /\ statusOf(LoadedRules) # "ready"
    /\ DutyEnd(Throw("RuleSetNotReady"), "status")
    /\ UNCHANGED <<dutyArgs, dutyFile, dutyMode, dutyRows, dutyBase>>
    /\ UNCHANGED solverVars

\* lines 204-212
DutyClosedForm ==
    /\ dutyPc = "loaded"
    /\ statusOf(LoadedRules) = "ready"
    /\ closedFormApplies(dutyArgs, LoadedRules)
    /\ DutyEnd(Ok(calcDutyNtPoly(dutyArgs.price)), "closed_form")
    /\ UNCHANGED <<dutyArgs, dutyFile, dutyMode, dutyRows, dutyBase>>
    /\ UNCHANGED solverVars

\* lines 216-218: mode, rows and baseDuty; calcFromRows may throw
DutyBaseDuty ==
    /\ dutyPc = "loaded"
    /\ statusOf(LoadedRules) = "ready"
    /\ ~closedFormApplies(dutyArgs, LoadedRules)
    /\ \E m \in {pickSchedule(LoadedRules, dutyArgs.state, dutyArgs.price, dutyArgs.isLand,
                              dutyArgs.isPpr, dutyArgs.isFhb,
                              IF dutyArgs.region = "" THEN "metro" ELSE dutyArgs.region)} :
         \E r \in {resolveModeSchedule(m, LoadedRules)} :
           \E b \in {calcFromRows(r, dutyArgs.price)} :
              /\ dutyMode' = m
              /\ dutyRows' = r
              /\ dutyBase' = b
              /\ IF b.threw
                 THEN DutyEnd(b, "base")
                 ELSE /\ dutyPc' = "base"
                      /\ dutyTrace' = Append(dutyTrace, "base")
                      /\ dutyOut' = dutyOut
    /\ UNCHANGED <<dutyArgs, dutyFile>>
    /\ UNCHANGED solverVars

\* lines 221-222: the declarative concessions, called with { price, isPpr, isLand }
DutyDeclarative ==
    /\ dutyPc = "base"
    /\ \E v \in {applyFhbConcessions(LoadedRules, dutyArgs.price, dutyArgs.isPpr,
                                     dutyArgs.isLand, FALSE, dutyBase.value,
                                     dutyMode, dutyRows)} :
          IF v.threw \/ v.value # dutyBase.value
          THEN DutyEnd(v, "declarative")
          ELSE /\ dutyPc' = "hard_coded"
               /\ dutyTrace' = Append(dutyTrace, "declarative")
               /\ dutyOut' = dutyOut
    /\ UNCHANGED <<dutyArgs, dutyFile, dutyMode, dutyRows, dutyBase>>
    /\ UNCHANGED solverVars

\* lines 224-261: the hard-coded first-home rules, else the base duty
DutyHardCoded ==
    /\ dutyPc = "hard_coded"
    /\ DutyEnd(hardCodedFhb(LoadedRules, toUpperCase(dutyArgs.state), dutyArgs.price,
                            dutyArgs.isFhb, dutyArgs.isPpr, dutyBase.value, dutyRows),
               "hard_coded")
    /\ UNCHANGED <<dutyArgs, dutyFile, dutyMode, dutyRows, dutyBase>>
    /\ UNCHANGED solverVars

DutyNext ==
    \/ DutyRejectInput
    \/ DutyUnsupported
    \/ DutyLoadRules
    \/ DutyNotReady
    \/ DutyClosedForm
    \/ DutyBaseDuty
    \/ DutyDeclarative
    \/ DutyHardCoded

DutySpec == DutyInit /\ [][DutyNext]_vars

DutyEnded == dutyPc \in {"returned", "thrown"}

DutyTypeOK ==
    /\ dutyPc \in {"start", "loaded", "base", "hard_coded", "returned", "thrown"}
    /\ dutyArgs \in DutyArgs
    /\ Len(dutyTrace) <= 4

\* The statements, taken one at a time, end as calcDuty does
DutyStepsAgree == DutyEnded => dutyOut = calcDuty(dutyArgs, LoadedRules)

(***************************************************************************)
(* Properties of the duty engine                                           *)
(***************************************************************************)
SupportedState == toLowerCase(dutyArgs.state) \in STATE_FILES

\* C11: calcDuty fails with InvalidInput, and returns no duty, for every
\* price that is not a number or is not strictly positive, in every
\* supported jurisdiction and for every combination of buyer flags.
C11_NonPositivePriceRejected ==
    (DutyEnded /\ SupportedState /\ (~dutyArgs.priceIsNumber \/ dutyArgs.price <= 0))
        => (dutyPc = "thrown" /\ dutyOut.error = "InvalidInput")

\* C12: calcDuty fails with RuleSetNotReady whenever the loaded rule set's
\* status is anything other than "ready", a rule set that declares no
\* status included, for every price and every combination of buyer flags;
\* no duty is produced from such a rule set, and neither the closed form
\* nor the mode selection nor a concession is reached.
C12_NotReadyRejected ==
    (DutyEnded /\ SupportedState /\ dutyArgs.priceIsNumber /\ dutyArgs.price > 0
       /\ LoadedRules.status # "ready")
        => /\ dutyPc = "thrown" /\ dutyOut.error = "RuleSetNotReady"
           /\ dutyTrace = <<"loadRules", "status">>

\* The schedule resolved for the buyer has been looked up (lines 216-218)
ScheduleResolved ==
    Len(dutyTrace) >= 2 /\ dutyTrace[2] = "base"

\* A schedule no duty can be read from: no rows, or a row without its base
\* amount or without its marginal rate
MalformedRows(rows) ==
    \/ Len(rows) = 0
    \/ \E k \in 1..Len(rows) : rows[k].base = NULL \/ rows[k].rate = NULL

ReadyCall ==
    /\ SupportedState
    /\ dutyArgs.priceIsNumber /\ dutyArgs.price > 0
    /\ statusOf(LoadedRules) = "ready"

\* The buyer is covered by a hard-coded law (lines 225, 236, 250)
HardCodedLaw(a) ==
    \/ a.isFhb /\ toUpperCase(a.state) = "NSW"
    \/ a.isFhb /\ a.isPpr /\ toUpperCase(a.state) \in {"VIC", "QLD"}

\* The declarative rules that match the buyer's property type and
\* owner-occupier requirement (lines 46-51), as indices into the rule list
MatchingRules(a, rules) ==
    IF ~a.isFhb \/ ~rules.fhb.enabled THEN {}
    ELSE { k \in 1..Len(rules.fhb.concessions) :
             LET c == rules.fhb.concessions[k] IN
               /\ (IF c.property_type = "" THEN "established" ELSE c.property_type)
                      = (IF a.isLand THEN "land" ELSE "established")
               /\ c.isPpr = "absent" \/ (a.isPpr = (c.isPpr = "true"))
               /\ c.from >= 0 /\ c.to > c.from }

FirstMatchingRule(a, rules) ==
    rules.fhb.concessions[CHOOSE k \in MatchingRules(a, rules) :
                              \A j \in MatchingRules(a, rules) : k <= j]

\* The full-exemption threshold of the concession that applies to the
\* buyer, NULL when none does
fullExemptionUpTo(a, rules) ==
    IF a.isFhb /\ toUpperCase(a.state) = "NSW" THEN 800000
    ELSE IF a.isFhb /\ a.isPpr /\ toUpperCase(a.state) = "VIC" THEN 600000
    ELSE IF a.isFhb /\ a.isPpr /\ toUpperCase(a.state) = "QLD" THEN 700000
    ELSE IF MatchingRules(a, rules) # {} THEN FirstMatchingRule(a, rules).from
    ELSE NULL

\* C14: for every buyer whose applicable concession, declarative or
\* hard-coded, has full-exemption threshold X, calcDuty returns 0 at price X
\* and a duty strictly greater than 0 at price X + 1.
C14_ExemptionBoundary ==
    (DutyEnded /\ ReadyCall /\ fullExemptionUpTo(dutyArgs, LoadedRules) # NULL)
        => /\ dutyArgs.price = fullExemptionUpTo(dutyArgs, LoadedRules)
                => dutyOut = Ok(0)
           /\ dutyArgs.price = fullExemptionUpTo(dutyArgs, LoadedRules) + 1
                => (~dutyOut.threw /\ dutyOut.value > 0)

\* The buyer falls under a hard-coded linear taper: NSW first-home buyers
\* (800,000 to 1,000,000) and VIC first-home owner-occupiers (600,000 to
\* 750,000)
NswTaperBuyer(a) == a.isFhb /\ toUpperCase(a.state) = "NSW"

VicTaperBuyer(a) == a.isFhb /\ a.isPpr /\ toUpperCase(a.state) = "VIC"

\* The untapered target of the buyer's taper at the buyer's price: in NSW
\* what the same buyer pays without the first-home flag, in VIC what a
\* buyer pays under the general schedule
taperTarget(a, rules) ==
    IF NswTaperBuyer(a) THEN calcDuty([a EXCEPT !.isFhb = FALSE], rules)
    ELSE calcDuty([a EXCEPT !.isFhb = FALSE, !.isPpr = FALSE], rules)

taperStart(a) == IF NswTaperBuyer(a) THEN 800000 ELSE 600000

taperEndPrice(a) == IF NswTaperBuyer(a) THEN 1000000 ELSE 750000

\* C15: for the NSW first-home taper (ending at 1,000,000, against the
\* buyer's own base duty) and the VIC first-home owner-occupier taper
\* (ending at 750,000, against the general schedule), the duty at the end
\* of the band equals the untapered target duty at that price, and at every
\* price inside the band the duty does not exceed the untapered target duty.
C15_TaperContinuity ==
    (DutyEnded /\ ReadyCall /\ (NswTaperBuyer(dutyArgs) \/ VicTaperBuyer(dutyArgs)))
        => /\ dutyArgs.price = taperEndPrice(dutyArgs)
                => (~dutyOut.threw /\ dutyOut = taperTarget(dutyArgs, LoadedRules))
           /\ (taperStart(dutyArgs) < dutyArgs.price /\ dutyArgs.price < taperEndPrice(dutyArgs))
                => (~dutyOut.threw /\ dutyOut.value <= taperTarget(dutyArgs, LoadedRules).value)

\* A NSW first-home buyer at the end of the band pays the full base duty
C15_Witness ==
    /\ dutyPc = "returned"
    /\ NswTaperBuyer(dutyArgs)
    /\ dutyArgs.price = 1000000
    /\ dutyTrace[Len(dutyTrace)] = "hard_coded"
    /\ dutyOut.value = dutyBase.value
    /\ dutyOut.value > 0

\* The target duty of a declarative rule at a price (lines 60-64)
ruleTarget(c, rules, rows, price) ==
    calcFromRows(IF c.basis = "ppr" THEN resolveModeSchedule(ModeOf(rules, "ppr"), rules)
                 ELSE IF c.basis = "general"
                      THEN resolveModeSchedule(ModeOf(rules, "established"), rules)
                 ELSE rows,
                 price)

\* A first-home buyer no hard-coded law covers, under a ready rule set with
\* an enabled rule that matches the buyer
DeclarativeBuyer ==
    /\ ReadyCall
    /\ ScheduleResolved
    /\ ~dutyBase.threw
    /\ dutyArgs.isFhb
    /\ ~HardCodedLaw(dutyArgs)
    /\ MatchingRules(dutyArgs, LoadedRules) # {}
    /\ FirstMatchingRule(dutyArgs, LoadedRules).type = "linear_to_full"

\* C16: for a first-home buyer in a jurisdiction without a hard-coded law
\* whose rule set has an enabled concession rule matching the buyer's
\* property type and owner-occupier requirement, calcDuty returns 0 at every
\* price up to fullExemptionUpTo and round(target * t), with
\* t = (price - fullExemptionUpTo) / (taperEndPrice - fullExemptionUpTo), at
\* every price strictly inside the taper band.
C16_DeclarativeEffective ==
    (DutyEnded /\ DeclarativeBuyer)
        => /\ dutyArgs.price <= FirstMatchingRule(dutyArgs, LoadedRules).from
                => dutyOut = Ok(0)
           /\ ( /\ dutyArgs.price > FirstMatchingRule(dutyArgs, LoadedRules).from
                /\ dutyArgs.price < FirstMatchingRule(dutyArgs, LoadedRules).to )
                => dutyOut =
                     Ok(RoundMulDiv(
                          ruleTarget(FirstMatchingRule(dutyArgs, LoadedRules), LoadedRules,
                                     dutyRows, dutyArgs.price).value,
                          dutyArgs.price - FirstMatchingRule(dutyArgs, LoadedRules).from,
                          FirstMatchingRule(dutyArgs, LoadedRules).to
                            - FirstMatchingRule(dutyArgs, LoadedRules).from))

\* Step `first` of the call came before step `second`
Before(first, second) ==
    \E j, k \in 1..Len(dutyTrace) :
        j < k /\ dutyTrace[j] = first /\ dutyTrace[k] = second

\* A buyer covered both by a hard-coded law and by a matching declarative
\* rule of the rule set
CoveredByBoth ==
    /\ ReadyCall
    /\ ScheduleResolved
    /\ ~dutyBase.threw
    /\ HardCodedLaw(dutyArgs)
    /\ MatchingRules(dutyArgs, LoadedRules) # {}

\* C17: when a buyer is covered both by a hard-coded law (NSW, VIC or QLD
\* first-home rules) and by a matching declarative rule, the duty returned
\* is the one the hard-coded law computes, at every price, and the
\* hard-coded rule is evaluated before, not after, the declarative path.
C17_HardCodedFirst ==
    (DutyEnded /\ CoveredByBoth)
        => /\ dutyOut = hardCodedFhb(LoadedRules, toUpperCase(dutyArgs.state),
                                     dutyArgs.price, dutyArgs.isFhb, dutyArgs.isPpr,
                                     dutyBase.value, dutyRows)
           /\ ~Before("declarative", "hard_coded")

\* The step rebate's defaults: 1,735 less rebate for every 10,000 begun
\* above the threshold
stepInterval == 10000

stepAmount == 1735

\* Math.ceil(a / b) for a >= 0, b > 0
CeilDiv(a, b) == (a + b - 1) \div b

\* The step rebate: the duty D(price) of the reference schedule less the
\* rebate max(0, D(threshold) - steps * stepAmount), never below 0
stepRebateDuty(refRows, price, threshold) ==
    Max2(0, calcFromRows(refRows, price).value
              - Max2(0, calcFromRows(refRows, threshold).value
                          - CeilDiv(price - threshold, stepInterval) * stepAmount))

\* A QLD first-home owner-occupier buying a home under a ready rule set
QldRebateBuyer ==
    /\ ReadyCall
    /\ toUpperCase(dutyArgs.state) = "QLD"
    /\ dutyArgs.isFhb /\ dutyArgs.isPpr /\ ~dutyArgs.isLand

\* C18: for a QLD first-home owner-occupier, at every price strictly
\* between the threshold 700,000 and the band end 800,000, and not only at
\* the multiples of 10,000, duty = max(0, D(price) - max(0, D(700,000) -
\* ceil((price - 700,000) / stepInterval) * stepAmount)), D being the duty of
\* the owner-occupier schedule; at the band end the duty is the full
\* owner-occupier duty.
C18_StepRebate ==
    (DutyEnded /\ QldRebateBuyer)
        => /\ (700000 < dutyArgs.price /\ dutyArgs.price < 800000)
                => dutyOut =
                     Ok(stepRebateDuty(resolveModeSchedule(ModeOf(LoadedRules, "ppr"), LoadedRules),
                                       dutyArgs.price, 700000))
           /\ dutyArgs.price = 800000
                => dutyOut =
                     calcFromRows(resolveModeSchedule(ModeOf(LoadedRules, "ppr"), LoadedRules),
                                  800000)

\* The first-home land cap of WA (line 141)
landCap == 450000

\* A WA first-home buyer of vacant land under a ready rule set
WaLandBuyer ==
    /\ ReadyCall
    /\ toUpperCase(dutyArgs.state) = "WA"
    /\ dutyArgs.isLand /\ dutyArgs.isFhb

\* The same purchase by a buyer with no concession flags, charged on the
\* established schedule
noFlagDuty(a, rules) ==
    calcDuty([a EXCEPT !.isLand = FALSE, !.isFhb = FALSE, !.isPpr = FALSE], rules)

\* The same vacant-land purchase without the first-home flag
generalLandDuty(a, rules) == calcDuty([a EXCEPT !.isFhb = FALSE], rules)

\* C19 as stated: above the land cap (WA: 450,000) a first-home vacant-land
\* purchase is charged exactly what a buyer with no concession flags pays
\* on the established schedule at the same price; at or below the cap the
\* first-home land mode is used when it exists.
C19_LandFallbackEstablished ==
    (DutyEnded /\ WaLandBuyer)
        => /\ dutyArgs.price > landCap => dutyOut = noFlagDuty(dutyArgs, LoadedRules)
           /\ (dutyArgs.price <= landCap /\ HasSchedule(ModeOf(LoadedRules, "fhb_land")))
                => dutyMode = ModeOf(LoadedRules, "fhb_land")

\* C19, amended: above the land cap the purchase is charged under the
\* general land mode, that is what a vacant-land buyer without the
\* first-home flag pays at the same price; that is the established-schedule
\* duty of a buyer with no concession flags whenever the land mode has no
\* schedule of its own and inherits from no mode other than the established
\* one.  At or below the cap the first-home land mode is used when it has a
\* schedule.
C19_LandFallbackGeneral ==
    (DutyEnded /\ WaLandBuyer)
        => /\ dutyArgs.price > landCap
                => /\ dutyOut = generalLandDuty(dutyArgs, LoadedRules)
                   /\ ( /\ ~HasSchedule(ModeOf(LoadedRules, "land"))
                        /\ ModeOf(LoadedRules, "land").inherits \in {"", "established"} )
                        => dutyOut = noFlagDuty(dutyArgs, LoadedRules)
           /\ (dutyArgs.price <= landCap /\ HasSchedule(ModeOf(LoadedRules, "fhb_land")))
                => dutyMode = ModeOf(LoadedRules, "fhb_land")

\* A WA first-home land purchase one dollar above the cap, charged on the
\* land mode's own schedule
C19_Witness ==
    /\ dutyPc = "returned"
    /\ WaLandBuyer
    /\ dutyArgs.price = landCap + 1
    /\ HasSchedule(ModeOf(LoadedRules, "land"))
    /\ dutyMode = ModeOf(LoadedRules, "land")
    /\ dutyOut.value > 0

\* The price up to which VIC selects the owner-occupier mode (line 154)
vicPprCap == 550000

\* An owner-occupier buying a home, under a ready rule set that has an
\* owner-occupier mode, once the mode has been selected
PprBuyer(st) ==
    /\ ReadyCall
    /\ ScheduleResolved
    /\ toUpperCase(dutyArgs.state) = st
    /\ dutyArgs.isPpr /\ ~dutyArgs.isLand
    /\ ModeOf(LoadedRules, "ppr").present

\* C20: in VIC the owner-occupier schedule is selected only for prices up to
\* 550,000, so above 550,000 a buyer who is neither a first-home buyer nor
\* buying land pays the same duty with isPpr true as with isPpr false; in
\* QLD and ACT the owner-occupier schedule is selected at every price.
C20_PprPriceCap ==
    /\ (DutyEnded /\ PprBuyer("VIC"))
          => /\ (dutyMode = ModeOf(LoadedRules, "ppr")) <=> (dutyArgs.price <= vicPprCap)
             /\ (dutyArgs.price > vicPprCap /\ ~dutyArgs.isFhb)
                  => dutyOut = calcDuty([dutyArgs EXCEPT !.isPpr = FALSE], LoadedRules)
    /\ (DutyEnded /\ (PprBuyer("QLD") \/ PprBuyer("ACT")))
          => dutyMode = ModeOf(LoadedRules, "ppr")

\* A VIC owner-occupier one dollar above the cap: charged on the
\* established schedule, more than the owner-occupier schedule would give
C20_Witness ==
    /\ dutyPc = "returned"
    /\ PprBuyer("VIC")
    /\ ~dutyArgs.isFhb
    /\ dutyArgs.price = vicPprCap + 1
    /\ dutyMode = ModeOf(LoadedRules, "established")
    /\ dutyOut.value >
         calcFromRows(resolveModeSchedule(ModeOf(LoadedRules, "ppr"), LoadedRules),
                      dutyArgs.price).value

\* A WA first-home buyer of a home, once the mode has been selected
WaHomeBuyer ==
    /\ ReadyCall
    /\ ScheduleResolved
    /\ toUpperCase(dutyArgs.state) = "WA"
    /\ dutyArgs.isFhb /\ ~dutyArgs.isLand

\* The buyer's region is the metropolitan one (the default, line 170)
IsMetro(a) == toLowerCase(IF a.region = "" THEN "metro" ELSE a.region) = "metro"

\* The price cap of the buyer's region (line 171)
regionCap(a) == IF IsMetro(a) THEN 700000 ELSE 750000

\* The first-home schedule of the buyer's region (line 172)
regionMode(a, rules) ==
    ModeOf(rules, IF IsMetro(a) THEN "fhb_home_metro" ELSE "fhb_home_nonmetro")

\* C21: for a WA first-home buyer of a home the region's first-home schedule
\* is used exactly while the price is at most the region cap (700,000 metro,
\* 750,000 non-metro); above the cap the duty equals that of a buyer who is
\* not a first-home buyer at the same price; and a call without a region
\* gives the same duty as one with region metro.
C21_RegionCap ==
    (DutyEnded /\ WaHomeBuyer)
        => /\ HasSchedule(regionMode(dutyArgs, LoadedRules))
                => ((dutyMode = regionMode(dutyArgs, LoadedRules))
                       <=> (dutyArgs.price <= regionCap(dutyArgs)))
           /\ dutyArgs.price > regionCap(dutyArgs)
                => dutyOut = calcDuty([dutyArgs EXCEPT !.isFhb = FALSE], LoadedRules)
           /\ dutyArgs.region = ""
                => dutyOut = calcDuty([dutyArgs EXCEPT !.region = "metro"], LoadedRules)

\* A non-metro first-home buyer exactly at the non-metro cap, charged on the
\* non-metro first-home schedule
C21_Witness ==
    /\ dutyPc = "returned"
    /\ WaHomeBuyer
    /\ dutyArgs.region = "non_metro"
    /\ dutyArgs.price = 750000
    /\ dutyMode = ModeOf(LoadedRules, "fhb_home_nonmetro")
    /\ dutyOut.value = 29725

\* A call for a jurisdiction whose rule set declares the closed form
ClosedFormCall ==
    /\ ReadyCall
    /\ toUpperCase(dutyArgs.state) = "NT"
    /\ LoadedRules.formula.type = "nt_poly"

\* The same price asked for a buyer with no flags and no region
plainBuyer(a) ==
    [a EXCEPT !.isLand = FALSE, !.isFhb = FALSE, !.isPpr = FALSE, !.region = ""]

\* C22: where the rule set declares the closed form (NT), every price at or
\* below the cutoff yields the polynomial's value whatever the buyer flags
\* and region, and neither the mode selection nor a concession is
\* consulted; every price above the cutoff is evaluated from the bracket
\* schedule.
C22_ClosedForm ==
    (DutyEnded /\ ClosedFormCall)
        => /\ dutyArgs.price <= LoadedRules.formula.max_applicable
                => /\ dutyTrace = <<"loadRules", "closed_form">>
                   /\ dutyOut = calcDuty(plainBuyer(dutyArgs), LoadedRules)
                   /\ dutyArgs.price = 500000 => dutyOut = Ok(23929)
                   /\ dutyArgs.price = 525000 => dutyOut = Ok(25988)
           /\ dutyArgs.price > LoadedRules.formula.max_applicable
                => /\ ScheduleResolved
                   /\ dutyRows = resolveModeSchedule(ModeOf(LoadedRules, "established"),
                                                     LoadedRules)
                   /\ dutyOut = calcFromRows(dutyRows, dutyArgs.price)

\* A first-home owner-occupier buying land in NT exactly at the cutoff is
\* charged the polynomial's value
C22_Witness ==
    /\ dutyPc = "returned"
    /\ ClosedFormCall
    /\ dutyArgs.isLand /\ dutyArgs.isFhb /\ dutyArgs.isPpr
    /\ dutyArgs.price = LoadedRules.formula.max_applicable
    /\ dutyTrace = <<"loadRules", "closed_form">>
    /\ dutyOut.value = 25988

\* The schedule of the call as the normaliser returns it (line 124)
nrowsOfCall == normaliseRows(dutyRows)

\* A call whose schedule is not empty, once it has been resolved
NormalisedCall == DutyEnded /\ ScheduleResolved /\ Len(dutyRows) > 0

\* Adjacent rows meet, and the last row alone is open at the top
Continuous(nrows) ==
    /\ \A k \in 1..(Len(nrows) - 1) :
          nrows[k].upper_exclusive = nrows[k + 1].lower_inclusive
    /\ \A k \in 1..Len(nrows) : (nrows[k].upper_exclusive = NULL) <=> (k = Len(nrows))

\* Row k of the raw schedule declares its own lower bound
DeclaresLower(rows, k) == rows[k].hasWA /\ rows[k].lower_inclusive # NULL

declarativeDuty ==
    applyFhbConcessions(LoadedRules, dutyArgs.price, dutyArgs.isPpr, dutyArgs.isLand,
                        dutyArgs.isFhb, dutyBase.value, dutyMode, dutyRows)

\* A first-home buyer under a ready rule set with an enabled concession
\* block, once the base duty is known
ConcessionCall ==
    /\ DutyEnded
    /\ ReadyCall
    /\ ScheduleResolved
    /\ ~dutyBase.threw
    /\ dutyArgs.isFhb
    /\ LoadedRules.fhb.enabled

\* C24: in applyFhbConcessions only the first rule that matches the buyer's
\* property type and owner-occupier requirement decides the outcome: 0 up
\* to its threshold, its taper inside its band, and the base duty unchanged
\* from its taper end on, even when a later rule also matches and would
\* reduce the duty; a buyer matching no rule gets the base duty unchanged.
C24_FirstRuleWins ==
    ConcessionCall
        => /\ MatchingRules(dutyArgs, LoadedRules) = {} => declarativeDuty = Ok(dutyBase.value)
           /\ MatchingRules(dutyArgs, LoadedRules) # {}
                => /\ dutyArgs.price <= FirstMatchingRule(dutyArgs, LoadedRules).from
                        => declarativeDuty = Ok(0)
                   /\ dutyArgs.price >= FirstMatchingRule(dutyArgs, LoadedRules).to
                        => declarativeDuty = Ok(dutyBase.value)

\* The rows of a normalised schedule that are open at the top or end above
\* the price
RowsAbove(nrows, price) ==
    { k \in 1..Len(nrows) :
        nrows[k].upper_exclusive = NULL \/ price < nrows[k].upper_exclusive }

\* The row the evaluation is to use: the first of them, the last row of the
\* schedule when there is none
rowFor(nrows, price) ==
    IF RowsAbove(nrows, price) = {} THEN nrows[Len(nrows)]
    ELSE nrows[CHOOSE k \in RowsAbove(nrows, price) :
                   \A j \in RowsAbove(nrows, price) : k <= j]

\* d is x rounded half-up, x = num / RateScale:  d - 1/2 <= x < d + 1/2
IsHalfUp(d, num) ==
    /\ RateScale * (2 * d - 1) <= 2 * num
    /\ 2 * num < RateScale * (2 * d + 1)

\* C25: for every non-empty normalised schedule and every price the
\* evaluation uses the first row whose upperExclusive is greater than the
\* price, or the last row when the price is at or above every finite upper
\* bound, and returns base + marginalRate * (price - appliesAboveThreshold)
\* of that one row, rounded half-up to a whole dollar; the row's
\* lowerInclusive plays no part in the selection.
C25_BracketEvaluation ==
    NormalisedCall
        => /\ ~dutyBase.threw
           /\ IsHalfUp(dutyBase.value,
                       rowFor(nrowsOfCall, dutyArgs.price).base * RateScale
                         + rowFor(nrowsOfCall, dutyArgs.price).rate
                             * (dutyArgs.price - rowFor(nrowsOfCall, dutyArgs.price).applies_above))
           /\ (dutyFile = "tas" /\ dutyArgs.price = 1000000) => dutyBase.value = 40185

\* A price below the declared lower bound of the row it is charged on:
\* 525,000 under a schedule whose second row starts at 550,000
C25_Witness ==
    /\ NormalisedCall
    /\ dutyArgs.price = 525000
    /\ Len(nrowsOfCall) = 2
    /\ nrowsOfCall[1].upper_exclusive = 500000
    /\ nrowsOfCall[2].lower_inclusive = 550000
    /\ dutyBase = Ok(20625)

\* The mode has no rows of its own and names a mode to inherit from
InheritsOnly(m, rules) ==
    /\ m.present
    /\ ~HasSchedule(m) /\ ~HasBrackets(m) /\ m.shape # "array"
    /\ m.inherits # ""
    /\ ModeOf(rules, m.inherits).present

\* The mode selector followed the land mode's inherits link (line 149)
SelectorLink ==
    /\ dutyArgs.isLand
    /\ InheritsOnly(ModeOf(LoadedRules, "land"), LoadedRules)
    /\ dutyMode = ModeOf(LoadedRules, ModeOf(LoadedRules, "land").inherits)

\* The rows have to come through an inherits link of the selected mode
\* (lines 90-92)
ResolverLink == InheritsOnly(dutyMode, LoadedRules)

\* C26: calcDuty never derives rows through more than one inherits link.
\* When the selected mode has no rows and the mode it inherits has none of
\* its own either, the evaluation fails; and for a vacant-land purchase,
\* where the selector has already followed the land mode's link, a further
\* link is not followed.
C26_SingleLevelInheritance ==
    (DutyEnded /\ ReadyCall /\ ScheduleResolved)
        => /\ (ResolverLink /\ InheritsOnly(ModeOf(LoadedRules, dutyMode.inherits), LoadedRules))
                => (dutyPc = "thrown" /\ dutyOut.error = "ScheduleError")
           /\ (SelectorLink /\ ResolverLink)
                => (dutyPc = "thrown" /\ dutyOut.error = "ScheduleError")

\* lmi_v1.json caps: no premium at or below min_lvr_for_lmi, invalid above
\* max_lvr (leverage in percent)
min_lvr_for_lmi == 80

max_lvr == 95

LvrBracket(lvr_min, lvr_max, rate) == [lvr_min |-> lvr_min, lvr_max |-> lvr_max, rate |-> rate]

LoanBand(loan_min, loan_max, lvr_brackets) ==
    [loan_min |-> loan_min, loan_max |-> loan_max, lvr_brackets |-> lvr_brackets]

\* lmi_v1.json bands: loan bands in dollars, rates times RateScale
LmiBands ==
    << LoanBand(0, 1000, << LvrBracket(80, 90, 100), LvrBracket(90, 96, 200) >>),
       LoanBand(1000, 1000000, << LvrBracket(80, 90, 150), LvrBracket(90, 96, 300) >>) >>

\* Array.prototype.find over the brackets of a band
findBracket(brackets, lvr) ==
    { k \in 1..Len(brackets) :
        /\ lvr >= brackets[k].lvr_min /\ lvr < brackets[k].lvr_max
        /\ \A j \in 1..(k - 1) : ~(lvr >= brackets[j].lvr_min /\ lvr < brackets[j].lvr_max) }

\* The first band containing the loan, else the last band.  loan is in
\* dollars times LvrScale.
findBand(bands, loan) ==
    IF \E k \in 1..Len(bands) :
           loan >= LvrScale * bands[k].loan_min /\ loan < LvrScale * bands[k].loan_max
    THEN bands[CHOOSE k \in 1..Len(bands) :
                   /\ loan >= LvrScale * bands[k].loan_min /\ loan < LvrScale * bands[k].loan_max
                   /\ \A j \in 1..(k - 1) :
                          ~(loan >= LvrScale * bands[j].loan_min /\ loan < LvrScale * bands[j].loan_max)]
    ELSE bands[Len(bands)]

lookupLmiRate(loan, lvr, bands) ==
    IF findBracket(findBand(bands, loan).lvr_brackets, lvr) = {}
    THEN 0
    ELSE findBand(bands, loan).lvr_brackets[
             CHOOSE k \in findBracket(findBand(bands, loan).lvr_brackets, lvr) : TRUE].rate

\* calcLmi({ loan, lvr }); NULL stands for NaN
calcLmi(loan, lvr) ==
    IF lvr <= min_lvr_for_lmi THEN 0
    ELSE IF lvr > max_lvr THEN NULL
    ELSE RoundHalfUp(loan * lookupLmiRate(loan, lvr, LmiBands), LvrScale * RateScale)

\* lvrUsed of feasible(price) from the resolved mode (line 71)
lvrUsedOf(in, mode) == Min2(Max2(in.targetLvr, 50), policyLvrCap(mode))

\* C27: under effective mode allow_lmi the premium recorded for a candidate
\* price is the estimator's result for that price's loan and leverage used
\* (0 at or below the minimum threshold, otherwise round(loan x rate)), and
\* the premium is capitalised with cash portion 0.
C27_PremiumFromEstimator ==
    (probe.price > 0 /\ ~probe.f.threw /\ probe.f.mode = "allow_lmi") =>
        /\ probe.f.lmiPrem = calcLmi(probe.f.baseLoan, lvrUsedOf(input, probe.f.mode))
        /\ probe.f.capitalised
        /\ probe.f.lmiCashPortion = 0

(***************************************************************************)
(* The search state of the solver                                          *)
(***************************************************************************)
\* The loop has been entered: lo, hi and best hold the search state
Searching == pc \in {"search", "finish", "done"}

\* C28: after every iteration of the binary search best.price = lo - 1 and
\* 1 <= lo <= hi + 1 <= initial hi + 1; best.proof is null exactly when
\* best.price = 0 and is otherwise the feasibility record computed at
\* best.price, with ok true; so the explanation returned with maxPrice > 0
\* is the record of exactly the returned price.
C28_SearchState ==
    Searching =>
        /\ best.price = lo - 1
        /\ 1 <= lo /\ lo <= hi + 1 /\ hi + 1 <= initialHi(input) + 1
        /\ (best.proof = NoProof) <=> (best.price = 0)
        /\ best.price > 0 =>
               (best.proof = feasible(best.price, input) /\ best.proof.ok)
        /\ (Returned /\ result.maxPrice > 0) =>
               /\ result.maxPrice = best.price
               /\ result = feasibleResult(input, [price |-> result.maxPrice,
                                                  proof |-> feasible(result.maxPrice, input)])

\* A price is returned after the search has moved both ends: some probe
\* succeeded and a later one failed.
C28_Witness ==
    /\ Returned
    /\ result.maxPrice > 1
    /\ hi < initialHi(input)
    /\ i >= 3
    /\ probe.price > result.maxPrice

\* The loop was left by its break (hi < lo) and a result was returned
ReturnedAfterBreak == Returned /\ hi < lo

\* C29: whenever the loop exits because hi < lo and maxPrice = m is
\* returned, m is the initial ceiling or price m + 1 was probed during the
\* search and found infeasible; and every probed price lies in
\* [1, initial hi].
C29_LocalMaximality ==
    /\ \A r \in probed : r.price >= 1 /\ r.price <= initialHi(input)
    /\ ReturnedAfterBreak =>
           \/ result.maxPrice = initialHi(input)
           \/ \E r \in probed : r.price = result.maxPrice + 1 /\ ~r.ok /\ ~r.threw

\* The last probe succeeded at the returned price, so the failed probe of
\* the price above it is an earlier one.
C29_Witness ==
    /\ ReturnedAfterBreak
    /\ result.maxPrice > 0
    /\ result.maxPrice < initialHi(input)
    /\ probe.price = result.maxPrice
    /\ probe.f.ok

\* Prices above the ceiling that are examined
MaxAbove == 2

\* borrowingPower + depositCash
budget(in) == in.borrowingPower.val + in.depositCash

\* C30: whenever duty and fees are non-negative, a feasible price is at most
\* borrowingPower + depositCash, so no feasible price lies above the initial
\* hi = floor((borrowingPower + depositCash) x 1.2).
C30_CeilingLosesNothing ==
    Searching =>
        /\ (probe.price > 0 /\ ~probe.f.threw /\ probe.f.ok
               /\ probe.f.duty >= 0 /\ probe.f.otherGovtFees >= 0)
              => probe.price <= budget(input)
        /\ \A p \in {budget(input) + k : k \in 1..MaxAbove}
                    \cup {initialHi(input) + k : k \in 1..MaxAbove} :
               (~feasible(p, input).threw /\ feasible(p, input).duty >= 0
                   /\ feasible(p, input).otherGovtFees >= 0)
                  => ~feasible(p, input).ok

\* A probe between borrowingPower + depositCash and the ceiling is found
\* infeasible, and a later probe succeeds below the budget.
C30_Witness ==
    /\ Searching
    /\ \E r \in probed : r.price > budget(input) /\ ~r.ok /\ ~r.threw
    /\ probe.price > 0 /\ ~probe.f.threw /\ probe.f.ok
    /\ probe.f.duty > 0

====
